---- MODULE Spec2Model ----
(***************************************************************************)
(* Vlaamse Chroniqueur: the Google Docs builder of src/google_drive.py.    *)
(*                                                                         *)
(* create_weekly_doc builds the weekly document in four phases: assemble   *)
(* the text with its StyleEvents and ImageSlots, insert the text at index  *)
(* 1, apply the formatting in batches of BATCH_SIZE requests, insert the   *)
(* images highest offset first; then move and share the document.  main()  *)
(* of src/main.py, which picks the filming dates and the best filming day  *)
(* from the forecast of src/weather.py before it calls create_weekly_doc,  *)
(* is the specification SpecMain.                                          *)
(*                                                                         *)
(* Text is modelled by TLA+ strings, on which Len, \o and SubSeq act as on *)
(* Python's str.  Three characters of the source that are not ASCII are    *)
(* written with one ASCII character each (same length): EMDASH, BULLET and *)
(* DEGREE.  Python's None and its other falsy values of the same type are  *)
(* modelled by the falsy value of the type ("" for str, <<>> for tuples    *)
(* and lists): the code under study only tests their truthiness.           *)
(***************************************************************************)
EXTENDS Integers, Sequences, FiniteSets, TLC

VARIABLES
    week_start_date,  \* create_weekly_doc's first argument
    script,           \* create_weekly_doc's second argument, the script package
    folder_id,        \* os.environ GOOGLE_DRIVE_FOLDER_ID, stripped
    pc,               \* position in create_weekly_doc
    buf,              \* Phase 1: the fragments appended by add()
    events,           \* Phase 1: list[StyleEvent] (style_events in create_weekly_doc)
    slots,            \* Phase 1: list[ImageSlot] (image_slots in create_weekly_doc)
    image_idx,        \* Phase 1: the nonlocal cursor of render_script_section
    day_i,            \* Phase 1: the index i of the shooting-plan loop
    lang,             \* Phase 1: which render_script_section call runs, "nl" or "en"
    sec_i,            \* Phase 1: how many sections of that script are rendered
    args,             \* history: the text handed to each primitive, in order
    full_text,        \* Phase 1 result: "".join(buf); "" before the return
    requests,         \* _apply_formatting: the request list
    batch_i,          \* _apply_formatting: the loop variable i of the chunking
    batches,          \* the style batches the service accepted, in order
    pending,          \* _insert_images: the sorted slots still to be tried
    attempts,         \* history: every image insert tried, with its outcome
    calls,            \* history: the remote calls issued, in order
    raised,           \* name of the remote call whose exception left create_weekly_doc
    result,           \* create_weekly_doc's return value ("" before it returns)
    doc,              \* the remote document's body: text runs and inline images
    mpc,              \* position in main()
    today,            \* main: date.today()
    filming_dates,    \* main: get_upcoming_filming_dates(today); <<>> before the call
    latlon,           \* main: (lat, lon); <<>> before geocoding
    weather_data,     \* main: get_weekly_weather's result; <<>> before the call
    best_day,         \* main: _select_best_filming_day's result; <<>> before the call
    trail,            \* history: main's external calls and how each ended
    failed,           \* name of the call whose exception reached main's "except Exception"
    returns,          \* history: arguments and result of each finished _build_document_text
    drive_folder,     \* the Drive folder: the set of its documents (name, createdTime)
    written_topics,   \* history: the topic of each document put in the folder, in order
    past_topics       \* get_past_topics' return value; <<>> before the call

vars == <<week_start_date, script, folder_id, pc, buf, events, slots, image_idx,
          day_i, lang, sec_i, args, full_text, requests, batch_i, batches,
          pending, attempts, calls, raised, result, doc, mpc, today,
          filming_dates, latlon, weather_data, best_day, trail, failed,
          returns, drive_folder, written_topics, past_topics>>

\* The locals of main()
main_locals == <<mpc, today, filming_dates, latlon, weather_data, best_day, trail, failed>>

\* What outlives one call of create_weekly_doc
beyond_call == <<returns, drive_folder, written_topics, past_topics>>

\* The first call: nothing built before, an empty folder
FirstCall ==
    /\ returns = <<>> /\ drive_folder = {} /\ written_topics = <<>> /\ past_topics = <<>>

(***************************************************************************)
(* Constants of google_drive.py                                            *)
(***************************************************************************)
BATCH_SIZE == 50

COLOR_NAVY == <<26, 53, 105>>
COLOR_BURGUNDY == <<97, 30, 30>>
COLOR_GREEN == <<45, 106, 45>>
COLOR_STEEL == <<31, 92, 153>>
COLOR_GREY == <<85, 85, 85>>

EMDASH == "-"    \* U+2014, one character
BULLET == "*"    \* U+2022, one character
DEGREE == "o"    \* U+00B0, one character

NoneStr == ""    \* None where a str is expected
NoneRgb == <<>>  \* None where an RGB tuple is expected
NoneNum == <<>>  \* None where a number is expected; <<n>> is the number n

(***************************************************************************)
(* Python helpers                                                          *)
(***************************************************************************)
\* dict.get(key, default)
Get(d, key, default) == IF key \in DOMAIN d THEN d[key] ELSE default

Min(a, b) == IF a < b THEN a ELSE b

\* sum(len(s) for s in fragments)
\* The sum and the join run over halves of the list, which keeps the
\* evaluation shallow; the result is that of the left-to-right loop
RECURSIVE SumLenOver(_, _, _)
SumLenOver(fragments, lo, hi) ==
    IF lo = hi THEN Len(fragments[lo])
    ELSE SumLenOver(fragments, lo, (lo + hi) \div 2)
         + SumLenOver(fragments, (lo + hi) \div 2 + 1, hi)

SumLen(fragments) ==
    IF fragments = <<>> THEN 0 ELSE SumLenOver(fragments, 1, Len(fragments))

RECURSIVE JoinOver(_, _, _)
JoinOver(fragments, lo, hi) ==
    IF lo > hi THEN ""
    ELSE IF lo = hi THEN fragments[lo]
    ELSE LET mid == (lo + hi) \div 2
         IN  JoinOver(fragments, lo, mid) \o JoinOver(fragments, mid + 1, hi)

\* "".join(fragments)
Join(fragments) == JoinOver(fragments, 1, Len(fragments))

\* ",".join(names)
RECURSIVE JoinComma(_)
JoinComma(names) ==
    IF names = <<>> THEN ""
    ELSE IF Len(names) = 1 THEN names[1]
    ELSE names[1] \o "," \o JoinComma(Tail(names))

\* str.lstrip("0")
RECURSIVE LStripZero(_)
LStripZero(s) ==
    IF Len(s) > 0 /\ SubSeq(s, 1, 1) = "0"
    THEN LStripZero(SubSeq(s, 2, Len(s)))
    ELSE s

MonthNames ==
    <<"January", "February", "March", "April", "May", "June", "July",
      "August", "September", "October", "November", "December">>

\* date.strftime("%d %B %Y"): the day of the month is zero-padded to two digits
Strftime(d) ==
    (IF d.day < 10 THEN "0" \o ToString(d.day) ELSE ToString(d.day))
        \o " " \o MonthNames[d.month] \o " " \o ToString(d.year)

\* week_start_date.strftime("%d %B %Y").lstrip("0")
DateLabel(d) == LStripZero(Strftime(d))

(***************************************************************************)
(* StyleEvent and ImageSlot                                                *)
(***************************************************************************)
\* StyleEvent(start=..., end=...) with the dataclass's defaults
StyleEvent(start, end) ==
    [start |-> start, end |-> end,
     named_style |-> NoneStr, color_rgb |-> NoneRgb,
     bold |-> FALSE, italic |-> FALSE,
     space_above_pt |-> 0, space_below_pt |-> 0,
     alignment |-> NoneStr, link_url |-> NoneStr]

ImageSlot(offset, url) == [offset |-> offset, url |-> url]

(***************************************************************************)
(* Phase 1: _build_document_text.  The operators take and return b, the    *)
(* function's local state: b.buf, b.events, b.slots, b.image_idx, and the  *)
(* history b.args.                                                         *)
(***************************************************************************)
pos_fragments(fragments) == Len(fragments)

pos(fragments) == SumLen(fragments)

add(b, text) == [b EXCEPT !.buf = Append(@, text)]

Emit_end_before_add(b, text, style) ==
    LET start == pos(b.buf)
        b1 == add(b, text \o "\n")
        ev == [a \in DOMAIN StyleEvent(0, 0) |->
                 IF a \in DOMAIN style THEN style[a]
                 ELSE StyleEvent(start, pos(b.buf))[a]]
    IN  [b EXCEPT !.buf = b1.buf, !.events = Append(@, ev), !.args = Append(@, text)]

\* What every primitive does: start = pos(); add(text + "\n"); one StyleEvent
\* [start, pos()) with the attributes `style` sets.
Emit(b, text, style) ==
    LET start == pos(b.buf)
        b1 == add(b, text \o "\n")
        ev == [a \in DOMAIN StyleEvent(0, 0) |->
                 IF a \in DOMAIN style THEN style[a]
                 ELSE StyleEvent(start, pos(b1.buf))[a]]
    IN  [b EXCEPT !.buf = b1.buf, !.events = Append(@, ev), !.args = Append(@, text)]

heading1(b, text, color) ==
    Emit(b, text,
         [named_style |-> "HEADING_1", color_rgb |-> color,
          space_above_pt |-> 20, space_below_pt |-> 6, alignment |-> "START"])

heading2(b, text, color) ==
    Emit(b, text,
         [named_style |-> "HEADING_2", color_rgb |-> color,
          space_above_pt |-> 16, space_below_pt |-> 4, alignment |-> "START"])

body(b, text, italic, color) ==
    Emit(b, text,
         [named_style |-> "NORMAL_TEXT", italic |-> italic, color_rgb |-> color,
          space_below_pt |-> 8, alignment |-> "JUSTIFIED"])

image_placeholder_end(b, url) ==
    LET b1 == Emit(b, "",
                   [named_style |-> "NORMAL_TEXT", alignment |-> "CENTER",
                    space_above_pt |-> 10, space_below_pt |-> 14])
    IN  [b1 EXCEPT !.slots = Append(@, ImageSlot(pos(b1.buf), url))]

image_placeholder(b, url) ==
    LET start == pos(b.buf)
        b1 == Emit(b, "",
                   [named_style |-> "NORMAL_TEXT", alignment |-> "CENTER",
                    space_above_pt |-> 10, space_below_pt |-> 14])
    IN  [b1 EXCEPT !.slots = Append(@, ImageSlot(start, url))]

link_line(b, label, url) ==
    Emit(b, label,
         [named_style |-> "NORMAL_TEXT", italic |-> TRUE,
          color_rgb |-> COLOR_STEEL, link_url |-> url, space_below_pt |-> 18])

\* for item in items: body(f"•  {item}")
RECURSIVE bullets(_, _)
bullets(b, items) ==
    IF items = <<>> THEN b
    ELSE bullets(body(b, BULLET \o "  " \o Head(items), FALSE, NoneRgb), Tail(items))

\* The title lines of _build_document_text
title(b, date, sc) ==
    Emit(b,
         "Vlaamse Chroniqueur " \o EMDASH \o " Week of " \o DateLabel(date)
             \o ": " \o Get(sc, "topic", ""),
         [named_style |-> "TITLE", alignment |-> "CENTER", space_below_pt |-> 10])

\* "if i == 0 and script.get("image_urls"): ..." at the end of the day loop's body
first_day_image_unchecked(b, sc, i) ==
    IF i = 0 /\ Get(sc, "image_urls", <<>>) # <<>>
    THEN image_placeholder(b, sc.image_urls[1])
    ELSE b

first_day_image(b, sc, i) ==
    IF i = 0 /\ Get(sc, "image_urls", <<>>) # <<>>
    THEN LET first_url == sc.image_urls[1]
         IN  IF first_url # NoneStr THEN image_placeholder(b, first_url) ELSE b
    ELSE b

\* The body of "for i, day_plan in enumerate(shooting_plan)"
day_entry(b, sc, day_plan, i) ==
    LET weather == Get(day_plan, "weather", [x \in {} |-> 0])
        condition == Get(weather, "condition", "unknown")
        temp == Get(weather, "temp_c", NoneNum)
        rain == Get(weather, "rain_mm", 0)
        recommended == Get(day_plan, "recommended", FALSE)
        venue == Get(day_plan, "venue", "outdoor")
        temp_str == IF temp # NoneNum THEN ToString(temp[1]) \o DEGREE \o "C" ELSE "?"
        b1 == heading2(b,
                       Get(day_plan, "day", "") \o " " \o Get(day_plan, "date", "")
                           \o " " \o EMDASH \o " " \o condition
                           \o " " \o EMDASH \o " " \o temp_str,
                       COLOR_GREEN)
        b2 == body(b1, "Venue: " \o venue, FALSE, NoneRgb)
        b3 == body(b2,
                   "Rain: " \o ToString(rain) \o " mm  |  Recommended: "
                       \o (IF recommended THEN "Yes" ELSE "No"),
                   FALSE, NoneRgb)
        indoor_alt == Get(day_plan, "indoor_alternative", NoneStr)
        b4 == IF indoor_alt # NoneStr
              THEN body(b3, "Indoor alternative: " \o indoor_alt, TRUE, COLOR_GREY)
              ELSE b3
        shots == Get(day_plan, "shots", <<>>)
        b5 == IF shots # <<>>
              THEN bullets(body(b4, "Suggested shots:", FALSE, NoneRgb), shots)
              ELSE b4
    IN  first_day_image(b5, sc, i)

\* "if image_idx < len(image_urls) and image_urls[image_idx]: ..." of
\* render_script_section; image_urls[image_idx] is the model's image_urls[image_idx + 1]
section_image(b, image_urls) ==
    IF b.image_idx < Len(image_urls) /\ image_urls[b.image_idx + 1] # NoneStr
    THEN [image_placeholder(b, image_urls[b.image_idx + 1])
             EXCEPT !.image_idx = b.image_idx + 1]
    ELSE b

\* The body of "for section in script_content.get("sections", [])"
script_section(b, section, image_urls) ==
    LET b1 == heading2(b, Get(section, "title", ""), COLOR_BURGUNDY)
        loc_notes == Get(section, "location_notes", "")
        b2 == IF loc_notes # ""
              THEN body(b1, "Locatie / Location: " \o loc_notes, TRUE, COLOR_GREY)
              ELSE b1
        b3 == body(b2, Get(section, "commentary", ""), FALSE, NoneRgb)
    IN  section_image(b3, image_urls)

\* render_script_section up to the loop over the sections
render_intro(b, heading_label, script_content, image_urls) ==
    LET b1 == heading1(b, heading_label, COLOR_NAVY)
        b2 == heading2(b1, "Intro", COLOR_BURGUNDY)
        b3 == body(b2, Get(script_content, "intro", ""), FALSE, NoneRgb)
    IN  section_image(b3, image_urls)

\* render_script_section after the loop over the sections
render_outro(b, script_content) ==
    body(heading2(b, "Outro", COLOR_BURGUNDY),
         Get(script_content, "outro", ""), FALSE, NoneRgb)

editing_guide(b, sc) ==
    LET editing == Get(sc, "editing_guide", [x \in {} |-> 0])
        b1 == heading1(b, "Editing Guide", COLOR_NAVY)
        b2 == heading2(b1, "Structure", COLOR_BURGUNDY)
        b3 == body(b2, Get(editing, "structure", ""), FALSE, NoneRgb)
        b4 == heading2(b3, "Transitions", COLOR_BURGUNDY)
        b5 == body(b4, Get(editing, "transitions", ""), FALSE, NoneRgb)
        b_roll == Get(editing, "b_roll_suggestions", <<>>)
        b6 == IF b_roll # <<>>
              THEN bullets(heading2(b5, "B-Roll Suggestions", COLOR_BURGUNDY), b_roll)
              ELSE b5
        b7 == heading2(b6, "Music Timing", COLOR_BURGUNDY)
    IN  body(b7, Get(editing, "music_timing", ""), FALSE, NoneRgb)

resource_section_unguarded(b, heading, items) ==
    bullets(heading2(b, heading, COLOR_BURGUNDY), items)

\* def resource_section(title, items): "if items:" guards heading and bullets
resource_section(b, heading, items) ==
    IF items # <<>>
    THEN bullets(heading2(b, heading, COLOR_BURGUNDY), items)
    ELSE b

resources_part(b, sc) ==
    LET resources == Get(sc, "resources", [x \in {} |-> 0])
        b1 == heading1(b, "Resources", COLOR_NAVY)
        b2 == resource_section(b1, "Where to Find Footage",
                               Get(resources, "footage_tips", <<>>))
        b3 == resource_section(b2, "Music Suggestions",
                               Get(resources, "music_suggestions", <<>>))
        b4 == resource_section(b3, "Quotes and Sources",
                               Get(resources, "quote_sources", <<>>))
        b5 == resource_section(b4, "Archives", Get(resources, "archives", <<>>))
        wiki_url == Get(sc, "wikipedia_url", "")
    IN  IF wiki_url # ""
        THEN link_line(b5, "Wikipedia: " \o Get(sc, "topic", ""), wiki_url)
        ELSE b5

(***************************************************************************)
(* Script packages.  A package is the dict main() hands to                 *)
(* create_weekly_doc: generate_script's JSON plus topic, location, period, *)
(* wikipedia_url and image_urls.                                           *)
(***************************************************************************)
MaxDays == 2       \* shooting-plan entries
MaxImages == 3     \* length of image_urls
MaxSections == 2   \* sections per script language

\* A day plan without temperature, indoor alternative or shots
DayPlanBare ==
    [day |-> "Monday", date |-> "2026-11-09",
     weather |-> [condition |-> "Rain", rain_mm |-> 6],
     recommended |-> FALSE, venue |-> "indoor", shots |-> <<>>]

\* A day plan with every optional part
DayPlanFull ==
    [day |-> "Wednesday", date |-> "2026-11-11",
     weather |-> [condition |-> "Sunny", temp_c |-> <<14>>, rain_mm |-> 0],
     recommended |-> TRUE, venue |-> "outdoor",
     indoor_alternative |-> "STAM Gent",
     shots |-> <<"Belfry from the quay", "Market square">>]

DayPlans == {DayPlanBare, DayPlanFull}

ShootingPlans == UNION {[1..n -> DayPlans] : n \in 0..MaxDays}

\* find_image_url's result for the i-th query (1-based), when it finds one
UrlAt(i) == "https://upload.wikimedia.org/img" \o ToString(i) \o ".jpg"

\* image_urls: every list of at most MaxImages entries, each a URL or None
ImageUrlLists ==
    UNION {{[i \in 1..n |-> IF i \in found THEN UrlAt(i) ELSE NoneStr] :
               found \in SUBSET (1..n)} : n \in 0..MaxImages}

\* The k-th section of a script; every other section has location notes
Section(language, k) ==
    [title |-> language \o " part " \o ToString(k),
     commentary |-> language \o " commentary " \o ToString(k) \o ".\nSecond line.",
     location_notes |-> IF k % 2 = 1 THEN "Graslei" ELSE ""]

ScriptContent(language, n) ==
    [intro |-> language \o " intro",
     sections |-> [k \in 1..n |-> Section(language, k)],
     outro |-> language \o " outro"]

\* Topic, reference URL, editing guide and resources with every optional part
RichExtras ==
    [topic |-> "Battle of the Golden Spurs",
     wikipedia_url |-> "https://en.wikipedia.org/wiki/Battle_of_the_Golden_Spurs",
     editing_guide |->
        [structure |-> "Cold open", transitions |-> "Hard cuts",
         b_roll_suggestions |-> <<"Belfry", "Canal">>, music_timing |-> "Drums at 0:30"],
     resources |->
        [footage_tips |-> <<"Europeana", "VRT archive">>,
         music_suggestions |-> <<"Lute">>,
         quote_sources |-> <<>>,
         archives |-> <<"Rijksarchief">>]]

\* No reference URL, empty editing-guide and resource lists
MinimalExtras ==
    [topic |-> "Pacification of Ghent: 1576",
     wikipedia_url |-> "",
     editing_guide |->
        [structure |-> "Linear", transitions |-> "Fades",
         b_roll_suggestions |-> <<>>, music_timing |-> "None"],
     resources |->
        [footage_tips |-> <<>>, music_suggestions |-> <<>>,
         quote_sources |-> <<>>, archives |-> <<>>]]

Package(shooting_plan, image_urls, nl, en, extras) ==
    [topic |-> extras.topic,
     location |-> "Ghent, Belgium",
     period |-> "Middle Ages",
     wikipedia_url |-> extras.wikipedia_url,
     shooting_plan |-> shooting_plan,
     script_nl |-> ScriptContent("NL", nl),
     script_en |-> ScriptContent("EN", en),
     editing_guide |-> extras.editing_guide,
     resources |-> extras.resources,
     image_urls |-> image_urls]

\* The minimal package: one bare day, scripts of intro and outro only, nothing optional
MinimalPackage == Package(<<DayPlanBare>>, <<>>, 0, 0, MinimalExtras)

\* Week starts: a Monday with a one-digit day and one with a two-digit day
Date9 == [year |-> 2026, month |-> 11, day |-> 9]
Date16 == [year |-> 2026, month |-> 11, day |-> 16]

\* The (week_start_date, script) pairs _build_document_text is applied to
BuildInputs ==
    {<<Date9, Package(plan, urls, nl, en, RichExtras)>> :
        plan \in ShootingPlans, urls \in ImageUrlLists,
        nl \in 0..MaxSections, en \in 0..MaxSections}
    \cup {<<d, Package(<<DayPlanBare>>, urls, 0, 0, MinimalExtras)>> :
            d \in {Date9, Date16}, urls \in {<<>>, <<UrlAt(1)>>}}

(***************************************************************************)
(* Phase 1 as steps of _build_document_text, one per block of the function *)
(***************************************************************************)
BuildState ==
    [buf |-> buf, events |-> events, slots |-> slots, args |-> args,
     image_idx |-> image_idx]

SetBuild(b) ==
    /\ buf' = b.buf
    /\ events' = b.events
    /\ slots' = b.slots
    /\ args' = b.args
    /\ image_idx' = b.image_idx

\* main() is at its call of create_weekly_doc; its locals play no part in the call
InsideCreateWeeklyDoc ==
    /\ mpc = "create_weekly_doc"
    /\ today = <<>>
    /\ filming_dates = <<>> /\ latlon = <<>> /\ weather_data = <<>>
    /\ best_day = <<>> /\ trail = <<>> /\ failed = ""

\* What a fresh call starts from: empty buf, events and slots
FreshLocals ==
    /\ buf = <<>> /\ events = <<>> /\ slots = <<>> /\ args = <<>>
    /\ image_idx = 0 /\ day_i = 0 /\ lang = "nl" /\ sec_i = 0
    /\ full_text = ""
    /\ requests = <<>> /\ batch_i = 0 /\ batches = <<>>
    /\ pending = <<>> /\ attempts = <<>>
    /\ calls = <<>> /\ raised = "" /\ result = ""
    /\ doc = <<>>
    /\ InsideCreateWeeklyDoc

outside_build ==
    <<week_start_date, script, folder_id, requests, batch_i, batches,
      pending, attempts, calls, raised, result, doc, main_locals, beyond_call>>

\* The title and the "Filming Schedule" heading
BuildTitle ==
    /\ pc = "build_title"
    /\ SetBuild(heading1(title(BuildState, week_start_date, script),
                         "Filming Schedule", COLOR_NAVY))
    /\ day_i' = 0
    /\ pc' = "build_days"
    /\ UNCHANGED <<lang, sec_i, full_text, outside_build>>

\* One iteration of "for i, day_plan in enumerate(shooting_plan)"
BuildDay ==
    /\ pc = "build_days"
    /\ day_i < Len(Get(script, "shooting_plan", <<>>))
    /\ SetBuild(day_entry(BuildState, script, script.shooting_plan[day_i + 1], day_i))
    /\ day_i' = day_i + 1
    /\ UNCHANGED <<pc, lang, sec_i, full_text, outside_build>>

BuildDaysDone_cursor_zero ==
    /\ pc = "build_days"
    /\ day_i >= Len(Get(script, "shooting_plan", <<>>))
    /\ image_idx' = 0
    /\ lang' = "nl"
    /\ pc' = "build_intro"
    /\ UNCHANGED <<buf, events, slots, args, day_i, sec_i, full_text, outside_build>>

\* The loop's exit: image_idx = 1, then the first render_script_section call
BuildDaysDone ==
    /\ pc = "build_days"
    /\ day_i >= Len(Get(script, "shooting_plan", <<>>))
    /\ image_idx' = 1
    /\ lang' = "nl"
    /\ pc' = "build_intro"
    /\ UNCHANGED <<buf, events, slots, args, day_i, sec_i, full_text, outside_build>>

HeadingLabel == IF lang = "nl" THEN "Script " \o EMDASH \o " Nederlands"
                ELSE "Script " \o EMDASH \o " English"

ScriptContentArg ==
    IF lang = "nl" THEN Get(script, "script_nl", [x \in {} |-> 0])
    ELSE Get(script, "script_en", [x \in {} |-> 0])

\* render_script_section: heading, intro and the image after the intro
RenderIntro ==
    /\ pc = "build_intro"
    /\ SetBuild(render_intro(BuildState, HeadingLabel, ScriptContentArg,
                             Get(script, "image_urls", <<>>)))
    /\ sec_i' = 0
    /\ pc' = "build_sections"
    /\ UNCHANGED <<day_i, lang, full_text, outside_build>>

\* render_script_section: one iteration of the loop over the sections
RenderSection ==
    /\ pc = "build_sections"
    /\ sec_i < Len(Get(ScriptContentArg, "sections", <<>>))
    /\ SetBuild(script_section(BuildState, ScriptContentArg.sections[sec_i + 1],
                               Get(script, "image_urls", <<>>)))
    /\ sec_i' = sec_i + 1
    /\ UNCHANGED <<pc, day_i, lang, full_text, outside_build>>

\* render_script_section: the outro; the Dutch call is followed by the English one
RenderOutro ==
    /\ pc = "build_sections"
    /\ sec_i >= Len(Get(ScriptContentArg, "sections", <<>>))
    /\ SetBuild(render_outro(BuildState, ScriptContentArg))
    /\ lang' = "en"
    /\ pc' = IF lang = "nl" THEN "build_intro" ELSE "build_editing"
    /\ UNCHANGED <<day_i, sec_i, full_text, outside_build>>

BuildEditingGuide ==
    /\ pc = "build_editing"
    /\ SetBuild(editing_guide(BuildState, script))
    /\ pc' = "build_resources"
    /\ UNCHANGED <<day_i, lang, sec_i, full_text, outside_build>>

\* Resources, the Wikipedia link, and the return of ("".join(buf), events, slots)
BuildResources ==
    /\ pc = "build_resources"
    /\ SetBuild(resources_part(BuildState, script))
    /\ full_text' = Join(buf')
    /\ pc' = "insert_text"
    /\ UNCHANGED <<day_i, lang, sec_i, outside_build>>

BuildStep ==
    \/ BuildTitle
    \/ BuildDay
    \/ BuildDaysDone
    \/ RenderIntro
    \/ RenderSection
    \/ RenderOutro
    \/ BuildEditingGuide
    \/ BuildResources

\* _build_document_text called on its own, on every input of BuildInputs
InitBuild ==
    /\ \E input \in BuildInputs :
          /\ week_start_date = input[1]
          /\ script = input[2]
    /\ folder_id = ""
    /\ pc = "build_title"
    /\ FreshLocals
    /\ FirstCall

SpecBuild == InitBuild /\ [][BuildStep]_vars

\* _build_document_text has returned
Built == full_text # ""

(***************************************************************************)
(* _build_document_text called again and again: every call creates buf,    *)
(* events and slots anew and sets image_idx after its shooting-plan loop   *)
(***************************************************************************)
MaxBuilds == 3     \* calls of _build_document_text in one run of the model

\* The inputs of the repeated builds: a package with an image in every slot, one
\* with a None in image_urls and no English section, and the minimal package
RebuildInputs ==
    {<<Date9, Package(<<DayPlanFull>>, <<UrlAt(1), UrlAt(2), UrlAt(3)>>, 1, 1, RichExtras)>>,
     <<Date9, Package(<<DayPlanBare>>, <<UrlAt(1), NoneStr, UrlAt(3)>>, 1, 0, RichExtras)>>,
     <<Date16, MinimalPackage>>}

\* "return full_text, events, slots"
BuildReturned ==
    /\ pc = "insert_text"
    /\ returns' = Append(returns,
                         [week_start_date |-> week_start_date, script |-> script,
                          full_text |-> full_text, events |-> events, slots |-> slots])
    /\ pc' = "build_returned"
    /\ UNCHANGED <<week_start_date, script, folder_id, buf, events, slots, image_idx,
                   day_i, lang, sec_i, args, full_text, requests, batch_i, batches,
                   pending, attempts, calls, raised, result, doc, main_locals,
                   drive_folder, written_topics, past_topics>>

CallBuild_shared_lists ==
    /\ pc = "build_returned"
    /\ Len(returns) < MaxBuilds
    /\ \E input \in RebuildInputs :
          /\ week_start_date' = input[1]
          /\ script' = input[2]
    /\ image_idx' = 0 /\ day_i' = 0 /\ lang' = "nl" /\ sec_i' = 0
    /\ full_text' = ""
    /\ pc' = "build_title"
    /\ UNCHANGED <<buf, events, slots, args, folder_id, requests, batch_i, batches, pending,
                   attempts, calls, raised, result, doc, main_locals, beyond_call>>

\* The next call: "buf: list[str] = []", "events = []", "slots = []"
CallBuild ==
    /\ pc = "build_returned"
    /\ Len(returns) < MaxBuilds
    /\ \E input \in RebuildInputs :
          /\ week_start_date' = input[1]
          /\ script' = input[2]
    /\ buf' = <<>> /\ events' = <<>> /\ slots' = <<>> /\ args' = <<>>
    /\ image_idx' = 0 /\ day_i' = 0 /\ lang' = "nl" /\ sec_i' = 0
    /\ full_text' = ""
    /\ pc' = "build_title"
    /\ UNCHANGED <<folder_id, requests, batch_i, batches, pending, attempts, calls,
                   raised, result, doc, main_locals, beyond_call>>

InitRebuild ==
    /\ \E input \in RebuildInputs :
          /\ week_start_date = input[1]
          /\ script = input[2]
    /\ folder_id = ""
    /\ pc = "build_title"
    /\ FreshLocals
    /\ FirstCall

NextRebuild ==
    \/ BuildStep
    \/ BuildReturned
    \/ CallBuild

SpecRebuild == InitRebuild /\ [][NextRebuild]_vars


(***************************************************************************)
(* Phase 3: the requests _apply_formatting derives from the StyleEvents.   *)
(* A dict is a function from its keys; the float r / 255 is the pair       *)
(* <<r, 255>>.                                                             *)
(***************************************************************************)
EmptyDict == [x \in {} |-> 0]

Magnitude(pt) == [magnitude |-> pt, unit |-> "PT"]

\* para_req["paragraphStyle"] of an event
paragraph_style(ev) ==
    (IF ev.named_style # NoneStr THEN "namedStyleType" :> ev.named_style ELSE EmptyDict)
    @@ (IF ev.alignment # NoneStr THEN "alignment" :> ev.alignment ELSE EmptyDict)
    @@ (IF ev.space_above_pt # 0 THEN "spaceAbove" :> Magnitude(ev.space_above_pt)
        ELSE EmptyDict)
    @@ (IF ev.space_below_pt # 0 THEN "spaceBelow" :> Magnitude(ev.space_below_pt)
        ELSE EmptyDict)

style_fields_all(ev) == <<"namedStyleType", "alignment", "spaceAbove", "spaceBelow">>

\* style_fields of an event, in the order the code appends them
style_fields(ev) ==
    (IF ev.named_style # NoneStr THEN <<"namedStyleType">> ELSE <<>>)
    \o (IF ev.alignment # NoneStr THEN <<"alignment">> ELSE <<>>)
    \o (IF ev.space_above_pt # 0 THEN <<"spaceAbove">> ELSE <<>>)
    \o (IF ev.space_below_pt # 0 THEN <<"spaceBelow">> ELSE <<>>)

\* text_style of an event
text_style(ev) ==
    (IF ev.color_rgb # NoneRgb
     THEN "foregroundColor" :>
            [color |-> [rgbColor |-> [red |-> <<ev.color_rgb[1], 255>>,
                                      green |-> <<ev.color_rgb[2], 255>>,
                                      blue |-> <<ev.color_rgb[3], 255>>]]]
     ELSE EmptyDict)
    @@ (IF ev.bold THEN "bold" :> TRUE ELSE EmptyDict)
    @@ (IF ev.italic THEN "italic" :> TRUE ELSE EmptyDict)
    @@ (IF ev.link_url # NoneStr THEN "link" :> [url |-> ev.link_url] ELSE EmptyDict)

\* text_fields of an event, in the order the code appends them
text_fields(ev) ==
    (IF ev.color_rgb # NoneRgb THEN <<"foregroundColor">> ELSE <<>>)
    \o (IF ev.bold THEN <<"bold">> ELSE <<>>)
    \o (IF ev.italic THEN <<"italic">> ELSE <<>>)
    \o (IF ev.link_url # NoneStr THEN <<"link">> ELSE <<>>)

Request_zero_based(kind, ev, style, fields) ==
    [kind |-> kind, startIndex |-> ev.start, endIndex |-> ev.end,
     style |-> style, fields |-> JoinComma(fields)]

\* A request over the event's range: "start = ev.start + 1", "end = ev.end + 1"
Request(kind, ev, style, fields) ==
    [kind |-> kind, startIndex |-> ev.start + 1, endIndex |-> ev.end + 1,
     style |-> style, fields |-> JoinComma(fields)]

\* "if ev.named_style: ... requests.append({"updateParagraphStyle": ...})"
paragraph_requests(ev) ==
    IF ev.named_style # NoneStr
    THEN <<Request("updateParagraphStyle", ev, paragraph_style(ev), style_fields(ev))>>
    ELSE <<>>

text_requests_unguarded(ev) ==
    <<Request("updateTextStyle", ev, text_style(ev), text_fields(ev))>>

\* "if text_style: requests.append({"updateTextStyle": ...})"
text_requests(ev) ==
    IF text_style(ev) # EmptyDict
    THEN <<Request("updateTextStyle", ev, text_style(ev), text_fields(ev))>>
    ELSE <<>>

\* The body of "for ev in events", from event i (1-based) on
RECURSIVE requests_over(_, _, _)
requests_over(evs, lo, hi) ==
    IF lo > hi THEN <<>>
    ELSE IF lo = hi THEN paragraph_requests(evs[lo]) \o text_requests(evs[lo])
    ELSE LET mid == (lo + hi) \div 2
         IN  requests_over(evs, lo, mid) \o requests_over(evs, mid + 1, hi)

requests_from(evs, i) == requests_over(evs, i, Len(evs))

chunk_short(reqs, i) == SubSeq(reqs, i + 1, Min(i + BATCH_SIZE - 1, Len(reqs)))

\* requests[i : i + BATCH_SIZE]
chunk(reqs, i) == SubSeq(reqs, i + 1, Min(i + BATCH_SIZE, Len(reqs)))

(***************************************************************************)
(* Phase 4 helper: sorted(slots, key=lambda s: s.offset, reverse=True).    *)
(* Python's sort is stable, also with reverse=True: slots of equal offset  *)
(* keep their order.                                                       *)
(***************************************************************************)
RECURSIVE InsertByOffsetAsc(_, _)
InsertByOffsetAsc(sorted, slot) ==
    IF sorted = <<>> THEN <<slot>>
    ELSE IF Head(sorted).offset <= slot.offset
         THEN <<Head(sorted)>> \o InsertByOffsetAsc(Tail(sorted), slot)
         ELSE <<slot>> \o sorted

RECURSIVE InsertByOffsetDesc(_, _)
InsertByOffsetDesc(sorted, slot) ==
    IF sorted = <<>> THEN <<slot>>
    ELSE IF Head(sorted).offset >= slot.offset
         THEN <<Head(sorted)>> \o InsertByOffsetDesc(Tail(sorted), slot)
         ELSE <<slot>> \o sorted

RECURSIVE sorted_ascending(_)
sorted_ascending(slot_list) ==
    IF slot_list = <<>> THEN <<>>
    ELSE InsertByOffsetAsc(sorted_ascending(SubSeq(slot_list, 1, Len(slot_list) - 1)),
                           slot_list[Len(slot_list)])

sorted_as_given(slot_list) == slot_list

RECURSIVE sorted_descending(_)
sorted_descending(slot_list) ==
    IF slot_list = <<>> THEN <<>>
    ELSE InsertByOffsetDesc(sorted_descending(SubSeq(slot_list, 1, Len(slot_list) - 1)),
                            slot_list[Len(slot_list)])

(***************************************************************************)
(* The remote document.  Its body is a sequence of elements, a text run or *)
(* an inline image; the first character has index 1, a text run takes one  *)
(* index per character and an inline image takes one index.  A new         *)
(* document holds the final line break of its only paragraph.              *)
(***************************************************************************)
TextRun(text) == [text |-> text, uri |-> ""]

InlineImage(uri) == [text |-> "", uri |-> uri]

EmptyDocument == <<TextRun("\n")>>

ElementLen(el) == IF el.uri # "" THEN 1 ELSE Len(el.text)

\* insertText / insertInlineImage with location.index = index: the element
\* goes in before the character now at that index, which moves up with all
\* that follows it
RECURSIVE InsertAt(_, _, _)
InsertAt(body_elements, index, el) ==
    IF body_elements = <<>> THEN <<el>>
    ELSE LET first == Head(body_elements)
             n == ElementLen(first)
         IN  IF index = 1 THEN <<el>> \o body_elements
             ELSE IF index > n
                  THEN <<first>> \o InsertAt(Tail(body_elements), index - n, el)
                  ELSE <<TextRun(SubSeq(first.text, 1, index - 1)), el,
                         TextRun(SubSeq(first.text, index, n))>>
                       \o Tail(body_elements)

(***************************************************************************)
(* create_weekly_doc.  Every remote call either returns or raises; which,  *)
(* is the service's choice.  calls records each call as it is issued.      *)
(***************************************************************************)
Call(op, ok, index, n) == [op |-> op, ok |-> ok, index |-> index, n |-> n]

\* file_data["webViewLink"] of the created document
WebViewLink == "https://docs.google.com/document/d/doc1/edit"

NextPhase_images_first(phase) ==
    CASE phase = "creds" -> "create"
      [] phase = "create" -> "build_title"
      [] phase = "insert_text" -> "images"
      [] phase = "images" -> "format"
      [] phase = "format" -> "move"
      [] phase = "move" -> "share"
      [] phase = "share" -> "returned"

\* The order of the statements of create_weekly_doc: where control goes when
\* a phase has finished
NextPhase(phase) ==
    CASE phase = "creds" -> "create"
      [] phase = "create" -> "build_title"
      [] phase = "insert_text" -> "format"
      [] phase = "format" -> "images"
      [] phase = "images" -> "move"
      [] phase = "move" -> "share"
      [] phase = "share" -> "returned"

Raise_swallowed(op) ==
    /\ raised' = op
    /\ pc' = IF op = "insertText" THEN NextPhase("insert_text") ELSE "raised"

\* An exception of remote call `op` that nothing catches leaves create_weekly_doc
Raise(op) == pc' = "raised" /\ raised' = op

build_locals == <<buf, events, slots, image_idx, day_i, lang, sec_i, args, full_text>>

\* _get_credentials: creds.refresh(Request()) may raise
GetCredentials ==
    /\ pc = "creds"
    /\ \E ok \in BOOLEAN :
          IF ok THEN pc' = NextPhase("creds") /\ UNCHANGED raised
          ELSE Raise("credentials")
    /\ UNCHANGED <<main_locals, beyond_call, doc, week_start_date, script, folder_id,
                   build_locals, requests,
                   batch_i, batches, pending, attempts, calls, result>>

\* docs.documents().create(body={"title": title}).execute()
CreateDocument ==
    /\ pc = "create"
    /\ \E ok \in BOOLEAN :
          /\ calls' = Append(calls, Call("documents.create", ok, 0, 0))
          /\ IF ok
             THEN pc' = NextPhase("create") /\ doc' = EmptyDocument /\ UNCHANGED raised
             ELSE Raise("documents.create") /\ UNCHANGED doc
    /\ UNCHANGED <<main_locals, beyond_call, week_start_date, script, folder_id,
                   build_locals, requests,
                   batch_i, batches, pending, attempts, result>>

\* _insert_text: one insertText of the whole text at index 1
InsertText ==
    /\ pc = "insert_text"
    /\ \E ok \in BOOLEAN :
          /\ calls' = Append(calls, Call("insertText", ok, 1, Len(full_text)))
          /\ IF ok
             THEN /\ pc' = NextPhase("insert_text")
                  /\ doc' = InsertAt(doc, 1, TextRun(full_text))
                  /\ UNCHANGED raised
             ELSE Raise("insertText") /\ UNCHANGED doc
    /\ UNCHANGED <<main_locals, beyond_call, week_start_date, script, folder_id,
                   build_locals, requests,
                   batch_i, batches, pending, attempts, result>>

\* _apply_formatting: the loop over the events that fills requests
BuildRequests ==
    /\ pc = "format"
    /\ requests' = requests_from(events, 1)
    /\ batch_i' = 0
    /\ pc' = "format_batches"
    /\ UNCHANGED <<main_locals, beyond_call, doc, week_start_date, script, folder_id,
                   build_locals, batches,
                   pending, attempts, calls, raised, result>>

\* _apply_formatting: one iteration of "for i in range(0, len(requests), BATCH_SIZE)";
\* an exception of the batchUpdate is not caught
SubmitBatch ==
    /\ pc = "format_batches"
    /\ batch_i < Len(requests)
    /\ \E ok \in BOOLEAN :
          /\ calls' = Append(calls, Call("updateStyles", ok, batch_i,
                                         Len(chunk(requests, batch_i))))
          /\ IF ok
             THEN /\ batches' = Append(batches, chunk(requests, batch_i))
                  /\ batch_i' = batch_i + BATCH_SIZE
                  /\ UNCHANGED <<pc, raised>>
             ELSE /\ Raise("updateStyles")
                  /\ UNCHANGED <<batches, batch_i>>
    /\ UNCHANGED <<main_locals, beyond_call, doc, week_start_date, script, folder_id,
                   build_locals, requests,
                   pending, attempts, result>>

\* _apply_formatting returns when the range is exhausted
FormattingDone ==
    /\ pc = "format_batches"
    /\ batch_i >= Len(requests)
    /\ pc' = NextPhase("format")
    /\ UNCHANGED <<main_locals, beyond_call, doc, week_start_date, script, folder_id,
                   build_locals, requests,
                   batch_i, batches, pending, attempts, calls, raised, result>>

\* _insert_images: sorted(slots, key=lambda s: s.offset, reverse=True)
SortSlots ==
    /\ pc = "images"
    /\ pending' = sorted_descending(slots)
    /\ pc' = "images_loop"
    /\ UNCHANGED <<main_locals, beyond_call, doc, week_start_date, script, folder_id,
                   build_locals, requests,
                   batch_i, batches, attempts, calls, raised, result>>

InsertImage_uncaught ==
    /\ pc = "images_loop"
    /\ pending # <<>>
    /\ \E ok \in BOOLEAN :
          /\ calls' = Append(calls, Call("insertInlineImage", ok,
                                         Head(pending).offset + 1, 0))
          /\ attempts' = Append(attempts, [offset |-> Head(pending).offset,
                                           url |-> Head(pending).url, ok |-> ok])
          /\ doc' = IF ok
                    THEN InsertAt(doc, Head(pending).offset + 1,
                                  InlineImage(Head(pending).url))
                    ELSE doc
          /\ IF ok THEN UNCHANGED <<pc, raised>> ELSE Raise("insertInlineImage")
    /\ pending' = Tail(pending)
    /\ UNCHANGED <<main_locals, beyond_call, week_start_date, script, folder_id,
                   build_locals, requests,
                   batch_i, batches, result>>

\* _insert_images: one iteration of the loop; "except Exception" catches the
\* failure of the insertInlineImage call and the loop goes on
InsertImage ==
    /\ pc = "images_loop"
    /\ pending # <<>>
    /\ \E ok \in BOOLEAN :
          /\ calls' = Append(calls, Call("insertInlineImage", ok,
                                         Head(pending).offset + 1, 0))
          /\ attempts' = Append(attempts, [offset |-> Head(pending).offset,
                                           url |-> Head(pending).url, ok |-> ok])
          /\ doc' = IF ok
                    THEN InsertAt(doc, Head(pending).offset + 1,
                                  InlineImage(Head(pending).url))
                    ELSE doc
    /\ pending' = Tail(pending)
    /\ UNCHANGED <<main_locals, beyond_call, week_start_date, script, folder_id, pc,
                   build_locals, requests,
                   batch_i, batches, raised, result>>

\* _insert_images returns when every sorted slot has been tried
ImagesDone ==
    /\ pc = "images_loop"
    /\ pending = <<>>
    /\ pc' = NextPhase("images")
    /\ UNCHANGED <<main_locals, beyond_call, doc, week_start_date, script, folder_id,
                   build_locals, requests,
                   batch_i, batches, pending, attempts, calls, raised, result>>

SkipMove_unconditional ==
    /\ pc = "move"
    /\ pc' = NextPhase("move")
    /\ UNCHANGED <<main_locals, beyond_call, doc, week_start_date, script, folder_id,
                   build_locals, requests,
                   batch_i, batches, pending, attempts, calls, raised, result>>

\* "if folder_id:" is false
SkipMove ==
    /\ pc = "move"
    /\ folder_id = ""
    /\ pc' = NextPhase("move")
    /\ UNCHANGED <<main_locals, beyond_call, doc, week_start_date, script, folder_id,
                   build_locals, requests,
                   batch_i, batches, pending, attempts, calls, raised, result>>

\* _move_to_folder: drive.files().get(fields="parents")
MoveGetParents ==
    /\ pc = "move"
    /\ folder_id # ""
    /\ \E ok \in BOOLEAN :
          /\ calls' = Append(calls, Call("files.get.parents", ok, 0, 0))
          /\ IF ok THEN pc' = "move_update" /\ UNCHANGED raised
             ELSE Raise("files.get.parents")
    /\ UNCHANGED <<main_locals, beyond_call, doc, week_start_date, script, folder_id,
                   build_locals, requests,
                   batch_i, batches, pending, attempts, result>>

\* _move_to_folder: drive.files().update(addParents=..., removeParents=...)
MoveUpdate ==
    /\ pc = "move_update"
    /\ \E ok \in BOOLEAN :
          /\ calls' = Append(calls, Call("files.update", ok, 0, 0))
          /\ IF ok THEN pc' = NextPhase("move") /\ UNCHANGED raised
             ELSE Raise("files.update")
    /\ UNCHANGED <<main_locals, beyond_call, doc, week_start_date, script, folder_id,
                   build_locals, requests,
                   batch_i, batches, pending, attempts, result>>

\* _make_shareable: drive.permissions().create(type anyone, role reader)
GrantPermission ==
    /\ pc = "share"
    /\ \E ok \in BOOLEAN :
          /\ calls' = Append(calls, Call("permissions.create", ok, 0, 0))
          /\ IF ok THEN pc' = "share_link" /\ UNCHANGED raised
             ELSE Raise("permissions.create")
    /\ UNCHANGED <<main_locals, beyond_call, doc, week_start_date, script, folder_id,
                   build_locals, requests,
                   batch_i, batches, pending, attempts, result>>

\* _make_shareable: drive.files().get(fields="webViewLink"), and the return
ReadLink ==
    /\ pc = "share_link"
    /\ \E ok \in BOOLEAN :
          /\ calls' = Append(calls, Call("files.get.webViewLink", ok, 0, 0))
          /\ IF ok
             THEN pc' = NextPhase("share") /\ result' = WebViewLink /\ UNCHANGED raised
             ELSE Raise("files.get.webViewLink") /\ UNCHANGED result
    /\ UNCHANGED <<main_locals, beyond_call, doc, week_start_date, script, folder_id,
                   build_locals, requests,
                   batch_i, batches, pending, attempts>>

\* Sections per language of the package with the most style requests
LongSections == 2 * MaxSections

\* REQUIRED_SCRIPT_KEYS of generator.py, the keys _validate_script demands of
\* generate_script's JSON
REQUIRED_SCRIPT_KEYS ==
    {"shooting_plan", "script_nl", "script_en", "editing_guide", "resources"}

\* The dict sc without the keys `keys`
Without(sc, keys) == [k \in (DOMAIN sc) \ keys |-> sc[k]]

\* Packages that lack one required key, or all of them
IncompletePackages ==
    LET sc == Package([i \in 1..MaxDays |-> DayPlanFull], <<UrlAt(1), UrlAt(2)>>,
                      MaxSections, MaxSections, RichExtras)
    IN  {Without(sc, {k}) : k \in REQUIRED_SCRIPT_KEYS}
        \cup {Without(sc, REQUIRED_SCRIPT_KEYS)}

\* The packages create_weekly_doc is run on: no day or MaxDays full days, no
\* section or MaxSections sections per language, every image_urls list; the
\* largest of these also with LongSections sections per language; the
\* minimal package; and the incomplete packages
PipelineInputs ==
    {<<Date9, Package(plan, urls, n, n, RichExtras)>> :
        plan \in {<<>>, [i \in 1..MaxDays |-> DayPlanFull]},
        urls \in ImageUrlLists, n \in {0, MaxSections}}
    \cup {<<Date9, Package([i \in 1..MaxDays |-> DayPlanFull], urls,
                          LongSections, LongSections, RichExtras)>> :
            urls \in ImageUrlLists}
    \cup {<<Date16, MinimalPackage>>}
    \cup {<<Date9, sc>> : sc \in IncompletePackages}

Init ==
    /\ \E input \in PipelineInputs :
          /\ week_start_date = input[1]
          /\ script = input[2]
    /\ folder_id \in {"", "folder1"}
    /\ pc = "creds"
    /\ FreshLocals
    /\ FirstCall

Next ==
    \/ GetCredentials
    \/ CreateDocument
    \/ BuildStep
    \/ InsertText
    \/ BuildRequests
    \/ SubmitBatch
    \/ FormattingDone
    \/ SortSlots
    \/ InsertImage
    \/ ImagesDone
    \/ SkipMove
    \/ MoveGetParents
    \/ MoveUpdate
    \/ GrantPermission
    \/ ReadLink

Spec == Init /\ [][Next]_vars

(***************************************************************************)
(* _apply_formatting on its own, on lists of arbitrary StyleEvents: every  *)
(* combination of set and unset attributes, the i-th event over the range  *)
(* [10 (i - 1), 10 (i - 1) + 5).                                           *)
(***************************************************************************)
MaxFmtEvents == 1   \* length of the event list

FmtEvent(i, named_style, alignment, above, below, color, bold, italic, link) ==
    [start |-> 10 * (i - 1), end |-> 10 * (i - 1) + 5,
     named_style |-> named_style, color_rgb |-> color,
     bold |-> bold, italic |-> italic,
     space_above_pt |-> above, space_below_pt |-> below,
     alignment |-> alignment, link_url |-> link]

FmtEvents(i) ==
    {FmtEvent(i, named_style, alignment, above, below, color, bold, italic, link) :
        named_style \in {NoneStr, "NORMAL_TEXT"}, alignment \in {NoneStr, "CENTER"},
        above \in {0, 10}, below \in {0, 8}, color \in {NoneRgb, COLOR_GREY},
        bold \in BOOLEAN, italic \in BOOLEAN,
        link \in {NoneStr, "https://en.wikipedia.org/wiki/Ghent"}}

\* An event with no attribute set, and one with every attribute set
PlainEvent(i) == FmtEvent(i, NoneStr, NoneStr, 0, 0, NoneRgb, FALSE, FALSE, NoneStr)

FullEvent(i) ==
    FmtEvent(i, "HEADING_1", "START", 20, 6, COLOR_NAVY, TRUE, TRUE,
             "https://en.wikipedia.org/wiki/Ghent")

\* The empty list, and the lists whose last event is any of FmtEvents and whose
\* earlier events are each plain or full
FmtEventLists ==
    {<<>>} \cup
    UNION {{[i \in 1..n |-> IF i = n THEN last
                            ELSE IF i \in full THEN FullEvent(i) ELSE PlainEvent(i)] :
               last \in FmtEvents(n), full \in SUBSET (1..(n - 1))} :
           n \in 1..MaxFmtEvents}

InitFmt ==
    /\ week_start_date = Date9
    /\ script = MinimalPackage
    /\ folder_id = ""
    /\ pc = "format"
    /\ events \in FmtEventLists
    /\ buf = <<>> /\ slots = <<>> /\ args = <<>>
    /\ image_idx = 0 /\ day_i = 0 /\ lang = "nl" /\ sec_i = 0
    /\ full_text = ""
    /\ requests = <<>> /\ batch_i = 0 /\ batches = <<>>
    /\ pending = <<>> /\ attempts = <<>>
    /\ calls = <<>> /\ raised = "" /\ result = ""
    /\ doc = <<>>
    /\ InsideCreateWeeklyDoc
    /\ FirstCall

NextFmt ==
    \/ BuildRequests
    \/ SubmitBatch
    \/ FormattingDone

SpecFmt == InitFmt /\ [][NextFmt]_vars

(***************************************************************************)
(* Claims about Phase 1, checked under SpecBuild                           *)
(***************************************************************************)
ImageUrlsOf(sc) == Get(sc, "image_urls", <<>>)

\* The buffer length when the i-th primitive was emitted: the lengths of the
\* texts emitted before it, each with its line break
EmittedBefore(i) == SumLen(SubSeq(args, 1, i - 1)) + (i - 1)

\* C1: every StyleEvent's start is the buffer length when its primitive was
\* emitted (the lengths of all texts emitted before it, each with its line
\* break), its end is the length right after, and the text between start and
\* end is the primitive's text followed by one line break; the returned
\* full_text is the buffer these offsets address.
C1_NoDrift ==
    /\ Len(events) = Len(args)
    /\ \A i \in 1..Len(events) :
          /\ events[i].start = EmittedBefore(i)
          /\ events[i].end = EmittedBefore(i) + Len(args[i]) + 1
          /\ SubSeq(Join(buf), events[i].start + 1, events[i].end) = args[i] \o "\n"
    /\ Built => full_text = Join(buf)

C1_Witness ==
    /\ Built
    /\ Len(events) > 40
    /\ Len(slots) >= 2
    /\ \E i \in 1..Len(events) : events[i].start > 100 /\ Len(args[i]) > 20

\* The section image slots a package offers: one after each intro and one
\* after each section, in both languages
SectionSlotCount(sc) ==
    (1 + Len(Get(Get(sc, "script_nl", [x \in {} |-> 0]), "sections", <<>>)))
    + (1 + Len(Get(Get(sc, "script_en", [x \in {} |-> 0]), "sections", <<>>)))

\* C4: a None at the cursor position only skips that slot and the cursor moves
\* on, so every URL at list position 1, 2, ... (0-based) that is not None and
\* for which the scripts have a section slot left is placed in some ImageSlot.
C4_SkipAdvancesCursor ==
    Built =>
        \A k \in 2..Len(ImageUrlsOf(script)) :
            (ImageUrlsOf(script)[k] # NoneStr /\ k - 1 <= SectionSlotCount(script))
                => \E s \in 1..Len(slots) : slots[s].url = ImageUrlsOf(script)[k]

\* The slot URLs are entries of image_urls taken at strictly increasing positions
InListOrder(slot_list, image_urls) ==
    \E position \in [1..Len(slot_list) -> 1..Len(image_urls)] :
        /\ \A s \in 1..Len(slot_list) : slot_list[s].url = image_urls[position[s]]
        /\ \A s \in 1..(Len(slot_list) - 1) : position[s] < position[s + 1]

Reverse(seq) == [i \in 1..Len(seq) |-> seq[Len(seq) + 1 - i]]

\* C8: the ImageSlots have strictly increasing offsets, each below the length of
\* full_text and at the line break of a placeholder event [offset, offset + 1);
\* their URLs are non-empty entries of image_urls in list order, no position
\* used twice; sorted by offset descending they come in reverse list order.
C8_SlotsIncreasing ==
    Built =>
        /\ \A s \in 1..Len(slots) :
              /\ slots[s].offset < Len(full_text)
              /\ SubSeq(full_text, slots[s].offset + 1, slots[s].offset + 1) = "\n"
              /\ \E i \in 1..Len(events) :
                    /\ events[i].start = slots[s].offset
                    /\ events[i].end = slots[s].offset + 1
                    /\ args[i] = ""
              /\ slots[s].url # NoneStr
        /\ \A s \in 1..(Len(slots) - 1) : slots[s].offset < slots[s + 1].offset
        /\ InListOrder(slots, ImageUrlsOf(script))
        /\ sorted_descending(slots) = Reverse(slots)

C8_Witness ==
    /\ Built
    /\ Len(slots) = 3
    /\ <<slots[1].url, slots[2].url, slots[3].url>> = <<UrlAt(1), UrlAt(2), UrlAt(3)>>
    /\ <<sorted_descending(slots)[1].url, sorted_descending(slots)[3].url>>
          = <<UrlAt(3), UrlAt(1)>>

\* image_urls = [None, urlB, ...] with a non-empty shooting plan
C9_Case ==
    /\ Get(script, "shooting_plan", <<>>) # <<>>
    /\ Len(ImageUrlsOf(script)) >= 2
    /\ ImageUrlsOf(script)[1] = NoneStr
    /\ ImageUrlsOf(script)[2] # NoneStr

\* C9: with image_urls[0] None and image_urls[1] a URL, no ImageSlot lies in the
\* filming schedule and the first slot holds image_urls[1], at the placeholder
\* that directly follows the Dutch script's intro paragraph.
C9_FirstSlotAfterDutchIntro ==
    (Built /\ C9_Case) =>
        /\ Len(slots) >= 1
        /\ slots[1].url = ImageUrlsOf(script)[2]
        /\ \E i \in 4..Len(events) :
              /\ events[i].start = slots[1].offset
              /\ args[i] = ""
              /\ args[i - 1] = script.script_nl.intro
              /\ args[i - 2] = "Intro"
              /\ args[i - 3] = "Script " \o EMDASH \o " Nederlands"

C9_Witness == Built /\ C9_Case /\ Len(slots) = 1
(***************************************************************************)
(* Claims about Phase 3                                                    *)
(***************************************************************************)
HasTextAttribute(ev) ==
    ev.color_rgb # NoneRgb \/ ev.bold \/ ev.italic \/ ev.link_url # NoneStr

HasParagraphAttribute(ev) ==
    \/ ev.named_style # NoneStr
    \/ ev.alignment # NoneStr
    \/ ev.space_above_pt # 0
    \/ ev.space_below_pt # 0

\* The requests of a kind that address the range of an event
RequestsFor(ev, kind) ==
    {r \in 1..Len(requests) :
        /\ requests[r].kind = kind
        /\ requests[r].startIndex = ev.start + 1
        /\ requests[r].endIndex = ev.end + 1}

\* C7: an event with none of color, bold, italic, link set has no updateTextStyle
\* request, and an event with none of named style, alignment, spacing set has
\* no updateParagraphStyle request.  Checked under SpecFmt.
C7_NoRequestWithoutAttributes ==
    pc = "format_batches" =>
        \A i \in 1..Len(events) :
            /\ ~HasTextAttribute(events[i])
                  => RequestsFor(events[i], "updateTextStyle") = {}
            /\ ~HasParagraphAttribute(events[i])
                  => RequestsFor(events[i], "updateParagraphStyle") = {}

C7_Witness ==
    /\ pc = "format_batches"
    /\ Len(events) = 1
    /\ ~HasTextAttribute(events[1])
    /\ ~HasParagraphAttribute(events[1])
    /\ requests = <<>>

RECURSIVE ConcatAll(_)
ConcatAll(lists) ==
    IF lists = <<>> THEN <<>> ELSE Head(lists) \o ConcatAll(Tail(lists))

\* create_weekly_doc is past _apply_formatting
PastFormatting ==
    pc \in {"images", "images_loop", "move", "move_update", "share", "share_link",
            "returned"}

\* C3: the accepted batches, concatenated in submission order, are the requests
\* submitted so far, a prefix of the request list, and the whole list once
\* _apply_formatting has returned; the list is in event order (ascending
\* start); no batch has more than BATCH_SIZE requests and every batch but the
\* last has exactly BATCH_SIZE.
C3_BatchesPartitionRequests ==
    /\ ConcatAll(batches) = SubSeq(requests, 1, Min(batch_i, Len(requests)))
    /\ PastFormatting => ConcatAll(batches) = requests
    /\ \A j \in 1..(Len(requests) - 1) :
          requests[j].startIndex <= requests[j + 1].startIndex
    /\ \A b \in 1..Len(batches) :
          /\ Len(batches[b]) <= BATCH_SIZE
          /\ Len(batches[b]) >= 1
          /\ b < Len(batches) => Len(batches[b]) = BATCH_SIZE

C3_Witness ==
    /\ PastFormatting
    /\ Len(batches) = 3
    /\ Len(batches[3]) < BATCH_SIZE

\* C5: a failed style batch does not abort the build: create_weekly_doc is not
\* left by the exception of an updateStyles batch.
C5_BatchFailureNotFatal ==
    (\E c \in 1..Len(calls) : calls[c].op = "updateStyles" /\ ~calls[c].ok)
        => ~(pc = "raised" /\ raised = "updateStyles")

PastImages == pc \in {"move", "move_update", "share", "share_link", "returned"}

\* C6: no failure of an image insert leaves _insert_images; once it has
\* returned, every slot has been tried exactly once; and the value
\* create_weekly_doc returns is the document's link, whatever inserts failed.
C6_BestEffortImages ==
    /\ raised # "insertInlineImage"
    /\ PastImages =>
          /\ Len(attempts) = Len(slots)
          /\ \A s \in 1..Len(slots) :
                Cardinality({a \in 1..Len(attempts) :
                                /\ attempts[a].offset = slots[s].offset
                                /\ attempts[a].url = slots[s].url}) = 1
    /\ pc = "returned" => result = WebViewLink

C6_Witness ==
    /\ pc = "returned"
    /\ result = WebViewLink
    /\ Len(attempts) = 3
    /\ ~attempts[1].ok
    /\ attempts[2].ok
    /\ ~attempts[3].ok

\* The place of a remote call in the order create_weekly_doc is to keep
Rank(op) ==
    CASE op = "documents.create" -> 1
      [] op = "insertText" -> 2
      [] op = "updateStyles" -> 3
      [] op = "insertInlineImage" -> 4
      [] op = "files.get.parents" -> 5
      [] op = "files.update" -> 6
      [] op = "permissions.create" -> 7
      [] op = "files.get.webViewLink" -> 8

OpsOf(call_list) == [c \in 1..Len(call_list) |-> call_list[c].op]

OkBatchesBefore(j) ==
    Cardinality({c \in 1..(j - 1) : calls[c].op = "updateStyles" /\ calls[c].ok})

\* C10: the remote calls are issued in the order creation, text insertion,
\* style batches, image insertions, move (get parents, update), permission
\* grant, link read; only batches and image inserts repeat; a style batch
\* is issued only after the text insertion returned, an image insert only
\* after every style batch returned; and a run that returns has created the
\* document first, inserted the text, moved the document exactly when a
\* folder is configured, granted the permission and read the link last.
C10_PhaseOrder ==
    /\ \A i, j \in 1..Len(calls) :
          i < j =>
             /\ Rank(calls[i].op) <= Rank(calls[j].op)
             /\ Rank(calls[i].op) = Rank(calls[j].op) => Rank(calls[i].op) \in {3, 4}
    /\ \A j \in 1..Len(calls) :
          /\ calls[j].op = "updateStyles"
                => \E i \in 1..(j - 1) : calls[i].op = "insertText" /\ calls[i].ok
          /\ calls[j].op = "insertInlineImage"
                => /\ \E i \in 1..(j - 1) : calls[i].op = "insertText" /\ calls[i].ok
                   /\ OkBatchesBefore(j) * BATCH_SIZE >= Len(events)
                   /\ OkBatchesBefore(j) * BATCH_SIZE >= Len(requests)
    /\ pc = "returned" =>
          /\ SubSeq(OpsOf(calls), 1, 2) = <<"documents.create", "insertText">>
          /\ OpsOf(SubSeq(calls, Len(calls) - 1, Len(calls)))
                = <<"permissions.create", "files.get.webViewLink">>
          /\ (folder_id # "")
                <=> \E c \in 1..Len(calls) : calls[c].op = "files.update"
          /\ (folder_id # "")
                <=> \E c \in 1..Len(calls) : calls[c].op = "files.get.parents"

C10_Witness ==
    /\ pc = "returned"
    /\ folder_id # ""
    /\ Len(batches) >= 2
    /\ Len(attempts) >= 2

(***************************************************************************)
(* Claims about failures and side effects of create_weekly_doc             *)
(***************************************************************************)
LaterOps ==
    {"updateStyles", "insertInlineImage", "files.get.parents", "files.update",
     "permissions.create", "files.get.webViewLink"}

\* C11: when documents.create or the insertText call fails, create_weekly_doc
\* raises and does nothing more: the failed call is the last remote call, no
\* style batch, image insert, move or permission grant is issued and no locator
\* is returned.
C11_CreateOrInsertFailureFatal ==
    raised \in {"documents.create", "insertText"} =>
        /\ pc = "raised"
        /\ result = ""
        /\ calls[Len(calls)].op = raised
        /\ ~calls[Len(calls)].ok
        /\ \A c \in 1..Len(calls) : calls[c].op \notin LaterOps
        /\ batches = <<>>
        /\ attempts = <<>>

C11_Witness ==
    /\ raised = "insertText"
    /\ Len(calls) = 2
    /\ Len(events) > 40
    /\ slots # <<>>

\* The number of remote calls of an operation issued so far
CountOps(op) == Cardinality({c \in 1..Len(calls) : calls[c].op = op})

CeilDiv(a, b) == (a + b - 1) \div b

\* C12: a successful build issues exactly one document creation, one text
\* insert, N = ceil(requests / BATCH_SIZE) style batches, M = number of
\* ImageSlots image inserts, one move iff a folder is configured, one permission
\* grant and one metadata read for the locator, and no other remote call.  The
\* move of _move_to_folder is the pair files.get(parents), files.update.
C12_ExactRemoteOperations ==
    pc = "returned" =>
        /\ CountOps("documents.create") = 1
        /\ CountOps("insertText") = 1
        /\ CountOps("updateStyles") = CeilDiv(Len(requests), BATCH_SIZE)
        /\ CountOps("insertInlineImage") = Len(slots)
        /\ CountOps("files.get.parents") = (IF folder_id # "" THEN 1 ELSE 0)
        /\ CountOps("files.update") = (IF folder_id # "" THEN 1 ELSE 0)
        /\ CountOps("permissions.create") = 1
        /\ CountOps("files.get.webViewLink") = 1
        /\ Len(calls) = 1 + 1 + CeilDiv(Len(requests), BATCH_SIZE) + Len(slots)
                        + (IF folder_id # "" THEN 2 ELSE 0) + 1 + 1

C12_Witness ==
    /\ pc = "returned"
    /\ folder_id # ""
    /\ Len(slots) = 3
    /\ Len(requests) > 2 * BATCH_SIZE
    /\ \E a \in 1..Len(attempts) : ~attempts[a].ok

(***************************************************************************)
(* The minimal package, checked under SpecBuild                            *)
(***************************************************************************)
\* The texts of the events of a named style, in order, from event i on
\* The texts of the events of one named style, in the order of the event list
ArgsOfStyle(style) ==
    LET HasStyle(i) == events[i].named_style = style
        found == SelectSeq([i \in 1..Len(events) |-> i], HasStyle)
    IN  [k \in 1..Len(found) |-> args[found[k]]]

LinkEvents == {i \in 1..Len(events) : events[i].link_url # NoneStr}

\* C13 as stated: for the minimal package the event list has exactly 1 title
\* event and exactly 2 HEADING_1 events, zero ImageSlots and zero link events.
C13_TwoHeading1Events ==
    (Built /\ script = MinimalPackage) =>
        /\ Len(ArgsOfStyle("TITLE")) = 1
        /\ Len(ArgsOfStyle("HEADING_1")) = 2
        /\ slots = <<>>
        /\ LinkEvents = {}

\* C13 amended: for the minimal package the event list has exactly 1 title
\* event and exactly 5 HEADING_1 events (Filming Schedule, the two scripts,
\* Editing Guide, Resources); HEADING_2 events only for the day, each Intro and
\* Outro and the three editing-guide texts, none for an empty list; zero
\* ImageSlots and zero link events.
C13_MinimalPackageEvents ==
    (Built /\ script = MinimalPackage) =>
        /\ Len(ArgsOfStyle("TITLE")) = 1
        /\ events[1].named_style = "TITLE"
        /\ ArgsOfStyle("HEADING_1") =
              <<"Filming Schedule", "Script " \o EMDASH \o " Nederlands",
                "Script " \o EMDASH \o " English", "Editing Guide", "Resources">>
        /\ ArgsOfStyle("HEADING_2") =
              <<"Monday 2026-11-09 " \o EMDASH \o " Rain " \o EMDASH \o " ?",
                "Intro", "Outro", "Intro", "Outro",
                "Structure", "Transitions", "Music Timing">>
        /\ slots = <<>>
        /\ LinkEvents = {}

C13_Witness ==
    /\ Built
    /\ script = MinimalPackage
    /\ Len(events) = 23

(***************************************************************************)
(* main.py and weather.py.  A date is a record of November 2026, whose 2nd *)
(* is a Monday.  Rain is counted in hundredths of a millimetre as the      *)
(* service reports it and in tenths once rounded; temperatures in tenths   *)
(* of a degree.  An optional number is <<>> for None and <<n>> otherwise.  *)
(***************************************************************************)
MaxRunDays == 14    \* run dates: the 2nd of November 2026 and the days after it

FirstRunDate == [year |-> 2026, month |-> 11, day |-> 2]

\* date.weekday(): Monday is 0
weekday(d) == (d.day - FirstRunDate.day) % 7

\* date + timedelta(days=n), within the month
PlusDays(d, n) == [d EXCEPT !.day = @ + n]

\* date.strftime("%Y-%m-%d")
IsoFormat(d) ==
    ToString(d.year) \o "-" \o ToString(d.month) \o "-"
        \o (IF d.day < 10 THEN "0" ELSE "") \o ToString(d.day)

get_upcoming_filming_dates_this_monday(run_date) ==
    LET monday == PlusDays(run_date, (7 - weekday(run_date)) % 7)
    IN  <<monday, PlusDays(monday, 2), PlusDays(monday, 4)>>

get_upcoming_filming_dates(run_date) ==
    LET days_until_monday == (7 - weekday(run_date)) % 7
        monday == PlusDays(run_date,
                           IF days_until_monday = 0 THEN 7 ELSE days_until_monday)
    IN  <<monday, PlusDays(monday, 2), PlusDays(monday, 4)>>

RAIN_THRESHOLD_MM == 200    \* 2.0 mm, in hundredths
FORECAST_DAYS == 7          \* "forecast_days": 7

\* WMO_CODE_MAP.get(code, f"unknown (WMO {code})"), for the codes used here
_decode_wmo(code) ==
    CASE code = 0 -> "clear sky"
      [] code = 3 -> "overcast"
      [] code = 61 -> "slight rain"
      [] code = 63 -> "moderate rain"
      [] OTHER -> "unknown (WMO " \o ToString(code) \o ")"

_FALLBACK_WEATHER ==
    [condition |-> "unknown", temp_c |-> NoneNum, rain_mm |-> NoneNum,
     outdoor_ok |-> FALSE]

\* round(float(rain), 1) of a value in hundredths, as tenths (no value used
\* here lies halfway between two tenths)
Round1(hundredths) == (hundredths + 5) \div 10

\* _parse_day: "or 0" for a missing weather code, "or 0.0" for missing rain
_parse_day(date_str, day) ==
    LET code == IF day.weathercode = NoneNum THEN 0 ELSE day.weathercode[1]
        rain == IF day.precipitation_sum = NoneNum THEN 0 ELSE day.precipitation_sum[1]
    IN  [date |-> date_str,
         condition |-> _decode_wmo(code),
         temp_c |-> day.temperature_2m_max,
         rain_mm |-> <<Round1(rain)>>,
         outdoor_ok |-> rain <= RAIN_THRESHOLD_MM]

\* The service's daily values for one day
ForecastDays ==
    {[weathercode |-> <<0>>, temperature_2m_max |-> <<181>>, precipitation_sum |-> <<0>>],
     [weathercode |-> <<3>>, temperature_2m_max |-> <<120>>, precipitation_sum |-> <<150>>],
     [weathercode |-> <<3>>, temperature_2m_max |-> <<181>>, precipitation_sum |-> <<150>>],
     [weathercode |-> <<61>>, temperature_2m_max |-> <<120>>, precipitation_sum |-> <<204>>],
     [weathercode |-> <<63>>, temperature_2m_max |-> <<90>>, precipitation_sum |-> <<650>>],
     [weathercode |-> NoneNum, temperature_2m_max |-> NoneNum, precipitation_sum |-> NoneNum]}

\* daily["time"] holds today and the FORECAST_DAYS - 1 days after it
InForecast(run_date, d) == d.day - run_date.day < FORECAST_DAYS

\* get_weekly_weather, given the daily values of the filming dates
get_weekly_weather(run_date, dates, daily) ==
    [i \in 1..Len(dates) |->
        IF InForecast(run_date, dates[i])
        THEN _parse_day(IsoFormat(dates[i]), daily[i])
        ELSE [date |-> IsoFormat(dates[i])] @@ _FALLBACK_WEATHER]

\* w.get("rain_mm") or 999, in tenths: None and 0 both give 999
RainKey(w) == IF w.rain_mm = NoneNum \/ w.rain_mm = <<0>> THEN 9990 ELSE w.rain_mm[1]

\* -(w.get("temp_c") or 0)
TempKey(w) == IF w.temp_c = NoneNum THEN 0 ELSE 0 - w.temp_c[1]

KeyLess(a, b) ==
    RainKey(a) < RainKey(b) \/ (RainKey(a) = RainKey(b) /\ TempKey(a) < TempKey(b))

\* min(pool, key=...): the first element no other element's key is below
RECURSIVE MinByKey(_)
MinByKey(pool) ==
    IF Len(pool) = 1 THEN pool[1]
    ELSE LET rest == MinByKey(Tail(pool))
         IN  IF KeyLess(rest, Head(pool)) THEN rest ELSE Head(pool)

IsOutdoor(w) == w.outdoor_ok

_select_best_filming_day(data) ==
    LET outdoor == SelectSeq(data, IsOutdoor)
        pool == IF outdoor # <<>> THEN outdoor ELSE data
    IN  MinByKey(pool)

(***************************************************************************)
(* main().  Each call main makes either returns or raises; create_weekly_doc *)
(* is one step here, its inside is the specification Spec.                 *)
(***************************************************************************)
GHENT == <<"51.0543", "3.7174">>     \* the fallback coordinates of main
GEOCODED == <<"50.8503", "4.3517">>  \* what geocode_location finds for the topic

Step(name, outcome) == [step |-> name, outcome |-> outcome]

\* An exception inside main's try reaches "except Exception": sys.exit(1)
Fail(name) == mpc' = "exit1" /\ failed' = name

pipeline_vars ==
    <<pc, buf, events, slots, image_idx, day_i, lang, sec_i, args, full_text,
      requests, batch_i, batches, pending, attempts, calls, raised, result, doc>>

\* filming_dates = get_upcoming_filming_dates(today)
MainFilmingDates ==
    /\ mpc = "start"
    /\ filming_dates' = get_upcoming_filming_dates(today)
    /\ mpc' = "past_topics"
    /\ UNCHANGED <<today, latlon, weather_data, best_day, trail, failed,
                   week_start_date, script, folder_id, pipeline_vars, beyond_call>>

\* "if folder_id: past_topics = get_past_topics(folder_id)", which catches its
\* own exceptions and then returns []: nothing of them reaches main
MainPastTopics ==
    /\ mpc = "past_topics"
    /\ \E outcome \in {"ok", "caught"} :
          trail' = IF folder_id # "" THEN Append(trail, Step("get_past_topics", outcome))
                   ELSE trail
    /\ mpc' = "select_topic"
    /\ UNCHANGED <<today, filming_dates, latlon, weather_data, best_day, failed,
                   week_start_date, script, folder_id, pipeline_vars, beyond_call>>

\* topic = select_topic(monday, past_topics)
MainSelectTopic ==
    /\ mpc = "select_topic"
    /\ \E ok \in BOOLEAN :
          /\ trail' = Append(trail, Step("select_topic", IF ok THEN "ok" ELSE "raised"))
          /\ IF ok THEN mpc' = "geocode" /\ UNCHANGED failed
             ELSE Fail("select_topic")
    /\ UNCHANGED <<today, filming_dates, latlon, weather_data, best_day,
                   week_start_date, script, folder_id, pipeline_vars, beyond_call>>

\* geocode_location inside "try: ... except ValueError": no result is a
\* ValueError and gives the fallback; requests.Timeout and requests.HTTPError
\* are not ValueErrors
MainGeocode ==
    /\ mpc = "geocode"
    /\ \E outcome \in {"ok", "ValueError", "RequestException"} :
          /\ trail' = Append(trail, Step("geocode_location", outcome))
          /\ CASE outcome = "ok" ->
                    latlon' = GEOCODED /\ mpc' = "weather" /\ UNCHANGED failed
               [] outcome = "ValueError" ->
                    latlon' = GHENT /\ mpc' = "weather" /\ UNCHANGED failed
               [] outcome = "RequestException" ->
                    Fail("geocode_location") /\ UNCHANGED latlon
    /\ UNCHANGED <<today, filming_dates, weather_data, best_day,
                   week_start_date, script, folder_id, pipeline_vars, beyond_call>>

\* weather_data = get_weekly_weather(lat, lon, filming_dates): _fetch_forecast
\* raises on a timeout or an HTTP error, and nothing catches it before main's
\* "except Exception"
MainWeather ==
    /\ mpc = "weather"
    /\ \/ \E daily \in [1..Len(filming_dates) -> ForecastDays] :
             /\ weather_data' = get_weekly_weather(today, filming_dates, daily)
             /\ trail' = Append(trail, Step("get_weekly_weather", "ok"))
             /\ mpc' = "best_day"
             /\ UNCHANGED failed
       \/ /\ trail' = Append(trail, Step("get_weekly_weather", "RequestException"))
          /\ Fail("get_weekly_weather")
          /\ UNCHANGED weather_data
    /\ UNCHANGED <<today, filming_dates, latlon, best_day,
                   week_start_date, script, folder_id, pipeline_vars, beyond_call>>

\* best_day = _select_best_filming_day(weather_data)
MainBestDay ==
    /\ mpc = "best_day"
    /\ best_day' = _select_best_filming_day(weather_data)
    /\ mpc' = "generate_script"
    /\ UNCHANGED <<today, filming_dates, latlon, weather_data, trail, failed,
                   week_start_date, script, folder_id, pipeline_vars, beyond_call>>

\* script = generate_script(topic, best_day), then the topic fields
MainGenerateScript ==
    /\ mpc = "generate_script"
    /\ \E ok \in BOOLEAN :
          /\ trail' = Append(trail, Step("generate_script", IF ok THEN "ok" ELSE "raised"))
          /\ IF ok THEN mpc' = "images" /\ script' = MinimalPackage /\ UNCHANGED failed
             ELSE Fail("generate_script") /\ UNCHANGED script
    /\ UNCHANGED <<today, filming_dates, latlon, weather_data, best_day,
                   week_start_date, folder_id, pipeline_vars, beyond_call>>

\* The image search: find_image_url returns None when its request fails
MainFindImages ==
    /\ mpc = "images"
    /\ \E urls \in {<<>>, <<UrlAt(1)>>, <<NoneStr, UrlAt(2)>>} :
          script' = [script EXCEPT !.image_urls = urls]
    /\ trail' = Append(trail, Step("find_image_url", "ok"))
    /\ mpc' = "create_weekly_doc"
    /\ UNCHANGED <<today, filming_dates, latlon, weather_data, best_day, failed,
                   week_start_date, folder_id, pipeline_vars, beyond_call>>

\* doc_url = create_weekly_doc(monday, script)
MainCreateWeeklyDoc ==
    /\ mpc = "create_weekly_doc"
    /\ pc = "not_called"
    /\ week_start_date' = filming_dates[1]
    /\ \E ok \in BOOLEAN :
          /\ trail' = Append(trail, Step("create_weekly_doc", IF ok THEN "ok" ELSE "raised"))
          /\ IF ok
             THEN /\ mpc' = "discord" /\ pc' = "returned" /\ result' = WebViewLink
                  /\ UNCHANGED failed
             ELSE /\ Fail("create_weekly_doc") /\ pc' = "raised"
                  /\ UNCHANGED result
    /\ UNCHANGED <<today, filming_dates, latlon, weather_data, best_day, script,
                   folder_id, buf, events, slots, image_idx, day_i, lang, sec_i, args,
                   full_text, requests, batch_i, batches, pending, attempts, calls,
                   raised, doc, beyond_call>>

MainDiscord_fatal ==
    /\ mpc = "discord"
    /\ \E outcome \in {"ok", "raised", "no_webhook"} :
          /\ trail' = Append(trail, Step("post_to_discord", outcome))
          /\ IF outcome = "raised" THEN Fail("post_to_discord")
             ELSE mpc' = "done" /\ UNCHANGED failed
    /\ UNCHANGED <<today, filming_dates, latlon, weather_data, best_day,
                   week_start_date, script, folder_id, pipeline_vars, beyond_call>>

\* post_to_discord inside "try: ... except Exception": a failure is a warning.
\* Without DISCORD_WEBHOOK_URL the function returns before it posts; the post
\* raises on a timeout and, by raise_for_status, on a non-2xx answer
MainDiscord ==
    /\ mpc = "discord"
    /\ \E outcome \in {"ok", "raised", "no_webhook"} :
          trail' = Append(trail, Step("post_to_discord", outcome))
    /\ mpc' = "done"
    /\ UNCHANGED <<today, filming_dates, latlon, weather_data, best_day, failed,
                   week_start_date, script, folder_id, pipeline_vars, beyond_call>>

RunDates == {PlusDays(FirstRunDate, k) : k \in 0..(MaxRunDays - 1)}

InitMain ==
    /\ mpc = "start"
    /\ today \in RunDates
    /\ folder_id \in {"", "folder1"}
    /\ filming_dates = <<>> /\ latlon = <<>> /\ weather_data = <<>>
    /\ best_day = <<>> /\ trail = <<>> /\ failed = ""
    /\ week_start_date = <<>>
    /\ script = EmptyDict
    /\ pc = "not_called"
    /\ buf = <<>> /\ events = <<>> /\ slots = <<>> /\ args = <<>>
    /\ image_idx = 0 /\ day_i = 0 /\ lang = "nl" /\ sec_i = 0
    /\ full_text = ""
    /\ requests = <<>> /\ batch_i = 0 /\ batches = <<>>
    /\ pending = <<>> /\ attempts = <<>>
    /\ calls = <<>> /\ raised = "" /\ result = ""
    /\ doc = <<>>
    /\ FirstCall

NextMain ==
    \/ MainFilmingDates
    \/ MainPastTopics
    \/ MainSelectTopic
    \/ MainGeocode
    \/ MainWeather
    \/ MainBestDay
    \/ MainGenerateScript
    \/ MainFindImages
    \/ MainCreateWeeklyDoc
    \/ MainDiscord

SpecMain == InitMain /\ [][NextMain]_vars

(***************************************************************************)
(* The Drive folder over the weeks: every run of main() reads the past     *)
(* topics from the titles in the folder, and create_weekly_doc adds one    *)
(* document, titled after the week and the topic                           *)
(***************************************************************************)
MaxDocs == 3       \* documents put in the folder in one run of the model

PAGE_SIZE == 100

\* title = f"Vlaamse Chroniqueur — Week of {date_str}: {topic}"
document_title(date, sc) ==
    "Vlaamse Chroniqueur " \o EMDASH \o " Week of " \o DateLabel(date)
        \o ": " \o Get(sc, "topic", "Unknown Topic")

\* The characters str.strip() removes
Whitespace == {" ", "\t", "\n"}

\* str.strip(): the string from its first to its last non-whitespace character
strip(str) ==
    LET inked == {k \in 1..Len(str) : SubSeq(str, k, k) \notin Whitespace}
    IN  IF inked = {} THEN ""
        ELSE SubSeq(str, CHOOSE k \in inked : \A j \in inked : k <= j,
                         CHOOSE k \in inked : \A j \in inked : k >= j)

\* The positions of ":" in name
Colons(name) == {k \in 1..Len(name) : SubSeq(name, k, k) = ":"}

topic_of_name_split_all(name) ==
    IF Colons(name) # {}
    THEN LET first == CHOOSE k \in Colons(name) : \A j \in Colons(name) : k <= j
             later == {k \in Colons(name) : k > first}
             stop == IF later = {} THEN Len(name)
                     ELSE (CHOOSE k \in later : \A j \in later : k <= j) - 1
         IN  strip(SubSeq(name, first + 1, stop))
    ELSE ""

\* 'if ":" in name: topic = name.split(":", 1)[1].strip()'; "" when there is none
topic_of_name(name) ==
    IF Colons(name) # {}
    THEN LET first == CHOOSE k \in Colons(name) : \A j \in Colons(name) : k <= j
         IN  strip(SubSeq(name, first + 1, Len(name)))
    ELSE ""

\* files().list(orderBy="createdTime asc", pageSize=100): the first page
list_files(folder) ==
    LET n == Min(Cardinality(folder), PAGE_SIZE)
    IN  [i \in 1..n |->
            CHOOSE f \in folder :
                Cardinality({g \in folder : g.createdTime < f.createdTime}) = i - 1]

\* The loop of get_past_topics: "if topic: topics.append(topic)"
get_past_topics(folder) ==
    LET files == list_files(folder)
        HasTopic(i) == topic_of_name(Get(files[i], "name", "")) # ""
        kept == SelectSeq([i \in 1..Len(files) |-> i], HasTopic)
    IN  [k \in 1..Len(kept) |-> topic_of_name(files[kept[k]].name)]

\* Topics select_topic may return: with a colon, with several, plain, and two
\* the title does not keep: the empty one and one that starts with a blank
Topics ==
    {"Battle of the Golden Spurs", "Pacification of Ghent: 1576", "Ghent 1540: a: b",
     "", " Ghent Altarpiece"}

\* past_topics = get_past_topics(folder_id); any exception of the listing gives []
GetPastTopics ==
    /\ mpc = "past_topics"
    /\ \E ok \in BOOLEAN :
          /\ past_topics' = IF ok THEN get_past_topics(drive_folder) ELSE <<>>
          /\ trail' = Append(trail, Step("get_past_topics", IF ok THEN "ok" ELSE "raised"))
    /\ mpc' = "create_weekly_doc"
    /\ UNCHANGED <<today, filming_dates, latlon, weather_data, best_day, failed,
                   week_start_date, script, folder_id, pipeline_vars,
                   returns, drive_folder, written_topics>>

\* create_weekly_doc of one week: the document it creates and moves to the folder
WeeklyDoc ==
    /\ mpc = "create_weekly_doc"
    /\ Len(written_topics) < MaxDocs
    /\ \E date \in {Date9, Date16}, topic \in Topics :
          /\ week_start_date' = date
          /\ script' = [MinimalPackage EXCEPT !.topic = topic]
          /\ drive_folder' = drive_folder
                \cup {[name |-> document_title(date, script'),
                       createdTime |-> Len(written_topics) + 1]}
          /\ written_topics' = Append(written_topics, topic)
    /\ mpc' = "past_topics"
    /\ UNCHANGED <<today, filming_dates, latlon, weather_data, best_day, trail, failed,
                   folder_id, pipeline_vars, returns, past_topics>>

InitTopics ==
    /\ mpc = "past_topics"
    /\ today = <<>>
    /\ folder_id = "folder1"
    /\ filming_dates = <<>> /\ latlon = <<>> /\ weather_data = <<>>
    /\ best_day = <<>> /\ trail = <<>> /\ failed = ""
    /\ week_start_date = Date9
    /\ script = MinimalPackage
    /\ pc = "not_called"
    /\ buf = <<>> /\ events = <<>> /\ slots = <<>> /\ args = <<>>
    /\ image_idx = 0 /\ day_i = 0 /\ lang = "nl" /\ sec_i = 0
    /\ full_text = ""
    /\ requests = <<>> /\ batch_i = 0 /\ batches = <<>>
    /\ pending = <<>> /\ attempts = <<>>
    /\ calls = <<>> /\ raised = "" /\ result = ""
    /\ doc = <<>>
    /\ FirstCall

NextTopics ==
    \/ GetPastTopics
    \/ WeeklyDoc

SpecTopics == InitTopics /\ [][NextTopics]_vars

(***************************************************************************)
(* Claims about main.py, checked under SpecMain                            *)
(***************************************************************************)
\* C14: get_upcoming_filming_dates returns <<M, M + 2 days, M + 4 days>> where M
\* is a Monday strictly after the run date and at most 7 days after it: 7 days
\* after a Monday, 1 day after a Sunday.
C14_NextMondayWednesdayFriday ==
    filming_dates # <<>> =>
        LET M == filming_dates[1]
            ahead == M.day - today.day
        IN  /\ filming_dates = <<M, PlusDays(M, 2), PlusDays(M, 4)>>
            /\ M.year = today.year /\ M.month = today.month
            /\ (M.day - FirstRunDate.day) % 7 = 0
            /\ ahead >= 1 /\ ahead <= 7
            /\ ((today.day - FirstRunDate.day) % 7 = 0 => ahead = 7)
            /\ ((today.day - FirstRunDate.day) % 7 = 6 => ahead = 1)

C14_Witness ==
    /\ filming_dates # <<>>
    /\ today = PlusDays(FirstRunDate, 7)
    /\ filming_dates[1] = PlusDays(FirstRunDate, 14)

Range(seq) == {seq[i] : i \in 1..Len(seq)}

\* C15: _select_best_filming_day returns an outdoor-ok day whenever one exists,
\* and among the pool (the outdoor-ok days, or all days if there is none) a day
\* of the lowest rain_mm, among those one of the highest temp_c; a day with
\* 0 mm of rain is preferred over a day with more rain.
C15_LowestRainThenWarmest ==
    best_day # <<>> =>
        LET outdoor == SelectSeq(weather_data, IsOutdoor)
            pool == IF outdoor # <<>> THEN outdoor ELSE weather_data
        IN  /\ best_day \in Range(pool)
            /\ \A w \in Range(pool) :
                  w.rain_mm # NoneNum =>
                     /\ best_day.rain_mm # NoneNum
                     /\ best_day.rain_mm[1] <= w.rain_mm[1]
                     /\ (best_day.rain_mm = w.rain_mm /\ w.temp_c # NoneNum) =>
                           /\ best_day.temp_c # NoneNum
                           /\ best_day.temp_c[1] >= w.temp_c[1]

\* C16: a failure of the geocoding lookup or of the weather lookup never aborts
\* the pipeline: main goes on with the fallback coordinates or weather value.
C16_LookupFailureNotFatal ==
    \A t \in 1..Len(trail) :
        (trail[t].step \in {"geocode_location", "get_weekly_weather"}
           /\ trail[t].outcome # "ok") =>
              /\ failed # trail[t].step
              /\ trail[t].step = "geocode_location" => latlon = GHENT

(***************************************************************************)
(* Claims about the remote document, checked under Spec                    *)
(***************************************************************************)
\* The element at an index of the body: an inline image, or the text run of
\* the one character there
RECURSIVE ElementAt(_, _)
ElementAt(body_elements, index) ==
    LET first == Head(body_elements)
        n == ElementLen(first)
    IN  IF index > n THEN ElementAt(Tail(body_elements), index - n)
        ELSE IF first.uri # "" THEN first
        ELSE TextRun(SubSeq(first.text, index, index))

\* The text of the body, inline images left out
RECURSIVE TextOf(_)
TextOf(body_elements) ==
    IF body_elements = <<>> THEN ""
    ELSE Head(body_elements).text \o TextOf(Tail(body_elements))

InsertedBelow(offset) ==
    Cardinality({a \in 1..Len(attempts) : attempts[a].ok /\ attempts[a].offset < offset})

\* C17: once _insert_images has finished, whichever inserts failed, every
\* inserted image is at index slot.offset + 1 + (number of inserted images of a
\* lower offset), directly before its own placeholder line break, and the text
\* of the document is the inserted text.
C17_ImagesBeforeOwnPlaceholder ==
    PastImages =>
        /\ TextOf(doc) = full_text \o "\n"
        /\ \A a \in 1..Len(attempts) :
              attempts[a].ok =>
                 LET index == attempts[a].offset + 1 + InsertedBelow(attempts[a].offset)
                 IN  /\ ElementAt(doc, index) = InlineImage(attempts[a].url)
                     /\ ElementAt(doc, index + 1) = TextRun("\n")
                     /\ SubSeq(full_text, attempts[a].offset + 1,
                               attempts[a].offset + 1) = "\n"

C17_Witness ==
    /\ pc = "returned"
    /\ Len(attempts) = 3
    /\ attempts[1].ok /\ ~attempts[2].ok /\ attempts[3].ok

\* The characters of the document's index range [from, to), while it holds no
\* inline image
DocRange(from, to) == SubSeq(TextOf(doc), from, to - 1)

\* C19: every style request's range is [ev.start + 1, ev.end + 1) of an event
\* and covers, in the document the single insertText at index 1 has produced,
\* exactly the characters full_text[ev.start:ev.end]; every image insert
\* targets slot.offset + 1 of a slot.
C19_OneBasedRanges ==
    /\ (pc \in {"format_batches", "images"} /\ raised = "") =>
          /\ \A r \in 1..Len(requests) :
                \E i \in 1..Len(events) :
                   /\ requests[r].startIndex = events[i].start + 1
                   /\ requests[r].endIndex = events[i].end + 1
                   /\ DocRange(requests[r].startIndex, requests[r].endIndex)
                         = SubSeq(full_text, events[i].start + 1, events[i].end)
                   /\ DocRange(requests[r].startIndex, requests[r].endIndex)
                         = args[i] \o "\n"
          /\ \A i \in 1..Len(events) :
                \E r \in 1..Len(requests) :
                   /\ requests[r].kind = "updateParagraphStyle"
                   /\ requests[r].startIndex = events[i].start + 1
                   /\ requests[r].endIndex = events[i].end + 1
    /\ \A c \in 1..Len(calls) :
          calls[c].op = "insertInlineImage" =>
             \E k \in 1..Len(slots) : calls[c].index = slots[k].offset + 1
    /\ \A c \in 1..Len(calls) :
          calls[c].op = "insertText" => calls[c].index = 1 /\ calls[c].n = Len(full_text)

C19_Witness ==
    /\ pc = "images"
    /\ Len(requests) > BATCH_SIZE
    /\ Len(slots) >= 2
    /\ doc = <<TextRun(full_text), TextRun("\n")>>

(***************************************************************************)
(* Claims about the requests of _apply_formatting, checked under SpecFmt   *)
(***************************************************************************)
\* C18: _apply_formatting emits a paragraph-style update for every event with
\* a paragraph-level attribute set (named style, alignment, spacing above or
\* below), also when no named style is set, and a text-style update for every
\* event with any of color, bold, italic, link set.
C18_UpdateForEveryAttribute ==
    pc = "format_batches" =>
        \A i \in 1..Len(events) :
            /\ HasParagraphAttribute(events[i])
                  => RequestsFor(events[i], "updateParagraphStyle") # {}
            /\ HasTextAttribute(events[i])
                  => RequestsFor(events[i], "updateTextStyle") # {}

\* The position of the first comma of a string, 0 if it has none
FirstComma(str) ==
    IF \E k \in 1..Len(str) : SubSeq(str, k, k) = ","
    THEN CHOOSE k \in 1..Len(str) :
            /\ SubSeq(str, k, k) = ","
            /\ \A j \in 1..(k - 1) : SubSeq(str, j, j) # ","
    ELSE 0

\* The names a field mask lists
RECURSIVE MaskNames(_)
MaskNames(mask) ==
    IF mask = "" THEN <<>>
    ELSE LET k == FirstComma(mask)
         IN  IF k = 0 THEN <<mask>>
             ELSE <<SubSeq(mask, 1, k - 1)>> \o MaskNames(SubSeq(mask, k + 1, Len(mask)))

\* Attribute `name` is in the style object exactly if `set` holds, and then
\* with value `value`
OnlyIfSet(style, name, set, value) ==
    IF set THEN name \in DOMAIN style /\ style[name] = value
    ELSE name \notin DOMAIN style

\* C20: every request's field mask lists exactly the attributes of its style
\* object, each once, and an attribute is in the style object only if it is
\* set on the StyleEvent, with the event's value.
C20_SparseFieldMasks ==
    pc = "format_batches" =>
        \A r \in 1..Len(requests) :
            LET req == requests[r]
                names == MaskNames(req.fields)
            IN  /\ {names[k] : k \in 1..Len(names)} = DOMAIN req.style
                /\ Len(names) = Cardinality(DOMAIN req.style)
                /\ \E i \in 1..Len(events) :
                      LET ev == events[i]
                      IN  /\ req.startIndex = ev.start + 1
                          /\ req.endIndex = ev.end + 1
                          /\ IF req.kind = "updateParagraphStyle"
                             THEN /\ DOMAIN req.style \subseteq
                                        {"namedStyleType", "alignment",
                                         "spaceAbove", "spaceBelow"}
                                  /\ OnlyIfSet(req.style, "namedStyleType",
                                               ev.named_style # NoneStr, ev.named_style)
                                  /\ OnlyIfSet(req.style, "alignment",
                                               ev.alignment # NoneStr, ev.alignment)
                                  /\ OnlyIfSet(req.style, "spaceAbove",
                                               ev.space_above_pt # 0,
                                               [magnitude |-> ev.space_above_pt,
                                                unit |-> "PT"])
                                  /\ OnlyIfSet(req.style, "spaceBelow",
                                               ev.space_below_pt # 0,
                                               [magnitude |-> ev.space_below_pt,
                                                unit |-> "PT"])
                             ELSE /\ DOMAIN req.style \subseteq
                                        {"foregroundColor", "bold", "italic", "link"}
                                  /\ OnlyIfSet(req.style, "foregroundColor",
                                               ev.color_rgb # NoneRgb,
                                               [color |-> [rgbColor |->
                                                  [red |-> <<ev.color_rgb[1], 255>>,
                                                   green |-> <<ev.color_rgb[2], 255>>,
                                                   blue |-> <<ev.color_rgb[3], 255>>]]])
                                  /\ OnlyIfSet(req.style, "bold", ev.bold, TRUE)
                                  /\ OnlyIfSet(req.style, "italic", ev.italic, TRUE)
                                  /\ OnlyIfSet(req.style, "link",
                                               ev.link_url # NoneStr,
                                               [url |-> ev.link_url])

C20_Witness ==
    /\ pc = "format_batches"
    /\ Len(requests) = 2
    /\ requests[1].fields = "namedStyleType,spaceBelow"
    /\ requests[2].fields = "bold,link"

(***************************************************************************)
(* Further claims about Phase 1, checked under SpecBuild                   *)
(***************************************************************************)
\* The index of the placeholder event of the s-th ImageSlot
EventOfSlot(s) ==
    CHOOSE i \in 1..Len(events) : events[i].start = slots[s].offset /\ args[i] = ""

\* The number of lines the shooting-plan loop emits for one entry
DayLines(day_plan) ==
    3 + (IF Get(day_plan, "indoor_alternative", NoneStr) # NoneStr THEN 1 ELSE 0)
      + (IF Get(day_plan, "shots", <<>>) # <<>> THEN 1 + Len(day_plan.shots) ELSE 0)

\* The index of the heading of the Dutch script, the first line after the schedule
DutchHeading ==
    CHOOSE i \in 1..Len(events) : args[i] = "Script " \o EMDASH \o " Nederlands"

\* The paragraphs a script-section image slot follows: an intro or a commentary
SlotParagraphs ==
    {script.script_nl.intro, script.script_en.intro}
    \cup {script.script_nl.sections[k].commentary : k \in DOMAIN script.script_nl.sections}
    \cup {script.script_en.sections[k].commentary : k \in DOMAIN script.script_en.sections}

\* The slots that hold image_urls[0] (the model's image_urls[1])
ScheduleSlots ==
    {s \in 1..Len(slots) :
        ImageUrlsOf(script) # <<>> /\ slots[s].url = ImageUrlsOf(script)[1]}

\* C21: image_urls[0] is placed only in the first slot, directly after the lines
\* of the first shooting-plan entry, and nowhere when the shooting plan is
\* empty; every other slot follows an intro or a section commentary of a script,
\* and the j-th of them holds image_urls[j], for j = 1, 2, ... without a gap.
C21_PositionZeroReserved ==
    Built =>
        LET plan == Get(script, "shooting_plan", <<>>)
            k == Cardinality(ScheduleSlots)
        IN  /\ plan = <<>> => ScheduleSlots = {}
            /\ \A s \in ScheduleSlots :
                  /\ s = 1
                  /\ EventOfSlot(s) = 2 + DayLines(plan[1]) + 1
                  /\ EventOfSlot(s) < DutchHeading
            /\ \A s \in (1..Len(slots)) \ ScheduleSlots :
                  /\ s - k + 1 <= Len(ImageUrlsOf(script))
                  /\ slots[s].url = ImageUrlsOf(script)[s - k + 1]
                  /\ EventOfSlot(s) > DutchHeading
                  /\ args[EventOfSlot(s) - 1] \in SlotParagraphs

C21_Witness ==
    /\ Built
    /\ Get(script, "shooting_plan", <<>>) # <<>>
    /\ Len(slots) = 3
    /\ ScheduleSlots = {1}
    /\ slots[3].url = ImageUrlsOf(script)[3]

\* C22: the StyleEvents tile the buffer: the first event is the TITLE event and
\* starts at 0, every event has start < end, each event's end is the next
\* event's start, and the last event's end is the length of the buffer, which
\* is the length of the returned full_text.
C22_EventsTileBuffer ==
    /\ events # <<>> =>
          /\ events[1].start = 0
          /\ events[1].named_style = "TITLE"
          /\ events[Len(events)].end = SumLen(buf)
    /\ \A i \in 1..Len(events) : events[i].start < events[i].end
    /\ \A i \in 1..(Len(events) - 1) : events[i].end = events[i + 1].start
    /\ Built =>
          /\ events # <<>>
          /\ events[Len(events)].end = Len(full_text)

C22_Witness ==
    /\ Built
    /\ Len(events) > 30
    /\ Len(slots) = 3
    /\ events[Len(events)].link_url # NoneStr

(***************************************************************************)
(* Further claims about create_weekly_doc, checked under Spec              *)
(***************************************************************************)
\* C23 as stated: called with a script package that lacks a required field,
\* create_weekly_doc raises: it never returns a document link.
C23_MissingFieldFatal ==
    (REQUIRED_SCRIPT_KEYS \ DOMAIN script # {}) => pc # "returned"

(***************************************************************************)
(* Claims about repeated builds, checked under SpecRebuild                 *)
(***************************************************************************)
\* Two finished builds of the same arguments returned the same triple
SameArgumentsSameResult ==
    \A i, j \in 1..Len(returns) :
        (/\ returns[i].week_start_date = returns[j].week_start_date
         /\ returns[i].script = returns[j].script)
        => /\ returns[i].full_text = returns[j].full_text
           /\ returns[i].events = returns[j].events
           /\ returns[i].slots = returns[j].slots

\* A step inside a build leaves its arguments as they are
ArgumentsKept ==
    pc # "build_returned" => (script' = script /\ week_start_date' = week_start_date)

\* C24: in any sequence of builds, two calls of _build_document_text with the
\* same week start and the same script package return identical text, events
\* and slots, whatever was built in between, and no step of a build modifies
\* the script package.
C24_FreshPerBuild == []SameArgumentsSameResult /\ [][ArgumentsKept]_vars

C24_Witness ==
    /\ Len(returns) = 3
    /\ returns[1].script = returns[3].script
    /\ returns[2].script # returns[1].script
    /\ Len(returns[3].slots) = 3
    /\ returns[2].events # <<>>

(***************************************************************************)
(* Claims about the titles in the Drive folder, checked under SpecTopics   *)
(***************************************************************************)
\* A topic the claim covers: not empty, no whitespace at either end
WellFormed(topic) ==
    /\ topic # ""
    /\ SubSeq(topic, 1, 1) \notin Whitespace
    /\ SubSeq(topic, Len(topic), Len(topic)) \notin Whitespace

\* C25: when every document in the folder was titled by create_weekly_doc with a
\* non-empty topic without leading or trailing whitespace, a listing that
\* succeeds returns exactly those topics, colons included, oldest first (the
\* first page of them).
C25_TitleRoundTrip ==
    (/\ mpc = "create_weekly_doc"
     /\ trail[Len(trail)].outcome = "ok"
     /\ \A k \in 1..Len(written_topics) : WellFormed(written_topics[k]))
    => past_topics = SubSeq(written_topics, 1, Min(Len(written_topics), PAGE_SIZE))

C25_Witness ==
    /\ mpc = "create_weekly_doc"
    /\ trail[Len(trail)].outcome = "ok"
    /\ written_topics = <<"Pacification of Ghent: 1576", "Battle of the Golden Spurs",
                          "Ghent 1540: a: b">>
    /\ past_topics = written_topics

(***************************************************************************)
(* Further claims about main(), checked under SpecMain                     *)
(***************************************************************************)
\* The outcomes of a call that leave it as an exception main has to handle
Raising == {"raised", "RequestException", "ValueError"}

====
